---------------------------- MODULE Spec2Model ----------------------------
(***************************************************************************)
(* Screen-state tracking and event-resolution pipeline of the Umamusume    *)
(* trainer overlay.                                                        *)
(*                                                                         *)
(*   Spec         AnalysisManager (src/src/analysis.ts) together with the  *)
(*                catalog lookup of src/src/events.ts: the two resolution  *)
(*                flows analyzeEvent / detectUmamusume, one step per       *)
(*                continuation between two awaits.                         *)
(*   SpecTracker  WindowTracker (src/unnamed/part_001): the 30 Hz interval *)
(*                callback and the classification sub-check.               *)
(*   SpecPure     the functions without state: parseEventType,             *)
(*                parseChoicesTable (src/src/events.ts) and the image      *)
(*                comparison of src/src/image.ts, applied to inputs drawn  *)
(*                from bounded sets.                                       *)
(*                                                                         *)
(* Strings are sequences of one-character strings, so that toLowerCase,    *)
(* trim, startsWith and includes are computed as the code computes them.   *)
(* An optional value (null / undefined in the source) is a sequence of     *)
(* length 0 (absent) or 1 (present).                                       *)
(***************************************************************************)
EXTENDS Integers, Sequences, FiniteSets, TLC

VARIABLES
    isProcessing,     \* AnalysisManager.isProcessing
    config,           \* AnalysisManager.config (the field the flows touch)
    configFile,       \* config.json as last written
    data,             \* events.ts: data, the in-memory catalog
    eventsFile,       \* data/events.json as last written
    calls,            \* the invocations of analyzeEvent / detectUmamusume
    emitted,          \* events emitted by AnalysisManager, in order
    fetched,          \* archive ids requested from the network, in order
    nreq,             \* number of requests made so far
    lastReturn,       \* what the invocation that returned last returned
    lastWindowInfo,   \* WindowTracker.lastWindowInfo
    umamusumeWindow,  \* WindowTracker.umamusumeWindow
    windowState,      \* WindowTracker.windowState
    zones,            \* data/zones.json
    now,              \* Date.now()
    checks,           \* suspended checkCareerProfilePageActive invocations
    tracked,          \* events WindowTracker emitted in the latest step, in order
    lastTracked,      \* the last event emitted of each kind, and whether a
                      \* sub-check has ended in its catch block
    prevInfo,         \* what getWindowInfo returned on the previous tick
    ended,            \* the sub-check that ended in the latest step, and how
    interval,         \* WindowTracker.interval, the timer of the tick loop
    pure              \* the latest call of a function without state: its
                      \* name, argument and result

pipelineVars == <<isProcessing, config, configFile, data, eventsFile, calls,
                  emitted, fetched, nreq, lastReturn>>
trackerVars == <<lastWindowInfo, umamusumeWindow, windowState, zones, now,
                 checks, tracked, lastTracked, prevInfo, ended, interval>>
pureVars == <<pure>>
vars == <<pipelineVars, trackerVars, pureVars>>

--------------------------------------------------------------------------
(* Bounds of the model. *)

\* concurrent invocations the environment may have outstanding
MaxCalls == 2
\* requests made in one run
MaxRequests == 2
\* nested detectUmamusume frames (the retry is unbounded in the code)
MaxDepth == 2
\* requests made in one run in which requests overlap a retry chain
MaxOverlapRequests == 3
\* requests made in one run in which every awaited promise settles
MaxLiveRequests == 1
\* ticks of the tracker's interval in one run
MaxTicks == 4
\* classification sub-checks suspended at the same time
MaxChecks == 2

--------------------------------------------------------------------------
(* Strings. *)

Upper == <<"A","B","C","D","E","F","G","H","I","J","K","L","M",
           "N","O","P","Q","R","S","T","U","V","W","X","Y","Z">>
Lower == <<"a","b","c","d","e","f","g","h","i","j","k","l","m",
           "n","o","p","q","r","s","t","u","v","w","x","y","z">>

toLowerCaseChar(c) ==
    IF \E i \in 1..26 : Upper[i] = c
    THEN Lower[CHOOSE i \in 1..26 : Upper[i] = c]
    ELSE c

\* String.prototype.toLowerCase
toLowerCase(s) == [i \in 1..Len(s) |-> toLowerCaseChar(s[i])]

\* String.prototype.startsWith: s starts with p
startsWith(s, p) == Len(p) <= Len(s) /\ SubSeq(s, 1, Len(p)) = p

\* String.prototype.includes
includes(s, p) == \E i \in 0..(Len(s) - Len(p)) : SubSeq(s, i + 1, i + Len(p)) = p

IsSpace(c) == c \in {" ", "\n", "\t"}

\* String.prototype.trim
trim(s) ==
    IF \A i \in 1..Len(s) : IsSpace(s[i]) THEN <<>>
    ELSE LET a == CHOOSE i \in 1..Len(s) :
                      ~IsSpace(s[i]) /\ \A j \in 1..(i - 1) : IsSpace(s[j])
             b == CHOOSE i \in 1..Len(s) :
                      ~IsSpace(s[i]) /\ \A j \in (i + 1)..Len(s) : IsSpace(s[j])
         IN SubSeq(s, a, b)

Null == <<>>
Some(v) == <<v>>
\* JavaScript truthiness of an optional string: null and '' are falsy
Truthy(o) == o # Null /\ o[1] # <<>>

--------------------------------------------------------------------------
(* Data the program loads: the roster, the catalog, the texts OCR yields. *)

Str_Oguri == <<"O","g","u","r","i">>
Str_oguri == <<"o","g","u","r","i">>
Str_Teio == <<"T","e","i","o">>
Str_AllUmamusume == <<"A","l","l"," ","U","m","a","m","u","s","u","m","e">>
Str_Sick == <<"S","i","c","k">>
Str_SickDay == <<"S","i","c","k"," ","D","a","y">>
Str_Run == <<"R","u","n">>
Str_Trainee == <<"T","r","a","i","n","e","e">>
Str_Support == <<"S","u","p","p","o","r","t">>
Str_Scenario == <<"S","c","e","n","a","r","i","o">>
Str_trainee == <<"t","r","a","i","n","e","e">>
Str_support == <<"s","u","p","p","o","r","t">>
Str_scenario == <<"s","c","e","n","a","r","i","o">>
Str_all_umamusume == <<"a","l","l"," ","u","m","a","m","u","s","u","m","e">>

\* data/names.json: the roster
names == <<Str_Oguri, Str_Teio>>

ChoiceCached == [choice |-> 1, text |-> "", success |-> <<"Speed +10">>, failure |-> <<>>]
ChoiceV1 == [choice |-> 1, text |-> "", success |-> <<"Power +5">>, failure |-> <<>>]
ChoiceV2 == [choice |-> 1, text |-> "", success |-> <<"Guts +3">>, failure |-> <<"Mood -1">>]

\* data/events.json with every record's index equal to its (0-based) position
CatalogAligned == <<
    [index |-> 0, archive_id |-> 10, title |-> Str_Sick, type |-> Str_Scenario,
     uma |-> Str_AllUmamusume, choices |-> Some(<<ChoiceCached>>)],
    [index |-> 1, archive_id |-> 11, title |-> Str_SickDay, type |-> Str_scenario,
     uma |-> Str_oguri, choices |-> Null],
    [index |-> 2, archive_id |-> 12, title |-> Str_Run, type |-> Str_Trainee,
     uma |-> Str_Teio, choices |-> Null] >>

\* the same records numbered from 1: index is the position plus one
CatalogShifted ==
    [p \in 1..Len(CatalogAligned) |-> [CatalogAligned[p] EXCEPT !.index = p]]

Catalogs == {CatalogAligned, CatalogShifted}

\* raw texts the OCR worker may recognise in each zone
RawTexts(zoneName) ==
    CASE zoneName = "event_title" ->
            {Str_SickDay, <<"S","I">>, <<"R","u","n","\n">>}
      [] zoneName = "event_type" ->
            {Str_Trainee, Str_support, <<" ">> \o Str_Scenario, <<" ">>}
      [] zoneName = "umamusume" ->
            {Str_Oguri \o <<"\n">>, Str_Teio, <<"O","g","u">>, <<"\n">>}

\* what a fetched detail page parses to
RemoteChoices == {<<ChoiceV1>>, <<ChoiceV2>>}

--------------------------------------------------------------------------
(* AnalysisManager and events.ts. *)

\* extractTextFromZone: null when the capture or the OCR fails, else
\* text.trim() || ''
extractTextFromZone(zoneName) ==
    {Null} \cup {Some(trim(t)) : t \in RawTexts(zoneName)}

\* parseEventType with the tests for support and trainee exchanged
parseEventTypeSupportFirst(rawText) ==
    LET text == toLowerCase(rawText)
    IN IF includes(text, Str_support) THEN Str_Support
       ELSE IF includes(text, Str_trainee) THEN Str_Trainee
       ELSE Str_Scenario

parseEventType(rawText) ==
    LET text == toLowerCase(rawText)
    IN IF includes(text, Str_trainee) THEN Str_Trainee
       ELSE IF includes(text, Str_support) THEN Str_Support
       ELSE IF includes(text, Str_scenario) THEN Str_Scenario
       ELSE Str_Scenario

Positions(d) == [p \in 1..Len(d) |-> p]

\* the filter with the record's own fields compared as stored, case kept
FilterTestCaseKept(d, p, type, uma) ==
    IF toLowerCase(type) # Str_trainee
    THEN d[p].type = type
    ELSE d[p].uma = uma \/ d[p].uma = Str_all_umamusume

\* the filter of findEvent, applied to the record at position p of d
FilterTest(d, p, type, uma) ==
    IF toLowerCase(type) # Str_trainee
    THEN toLowerCase(d[p].type) = toLowerCase(type)
    ELSE LET eventUma == toLowerCase(d[p].uma)
         IN eventUma = toLowerCase(uma) \/ eventUma = Str_all_umamusume

\* findEvent: events, as the positions (from 1) of the records kept, in order
FilterEvents(d, type, uma) ==
    SelectSeq(Positions(d), LAMBDA p : FilterTest(d, p, type, uma))

\* the test of events.find
FindTest(eventTitle, title) ==
    startsWith(toLowerCase(eventTitle), toLowerCase(title))

\* events.find: the first position of events passing the test, 0 for undefined
FindEvent(d, events, title) ==
    LET hits == SelectSeq(events, LAMBDA p : FindTest(d[p].title, title))
    IN IF hits = <<>> THEN 0 ELSE hits[1]

\* updateEvents, the assignment data[index]['choices'] = choices
\* (the JavaScript array is indexed from 0)
UpdateTarget(index) == index + 1

Idle == [kind |-> "none", pc |-> "idle", depth |-> 0, titleText |-> Null,
         type |-> <<>>, uma |-> <<>>, events |-> <<>>, sel |-> 0, index |-> 0,
         archive_id |-> 0, result |-> Null, text |-> Null,
         fetchFailed |-> FALSE]

Free(c) == calls[c].pc = "idle"
InFlight(c) == ~Free(c)

\* the slot a new invocation takes
NextSlot == CHOOSE c \in 1..MaxCalls : Free(c) /\ \A b \in 1..(c - 1) : ~Free(b)

CanRequest == nreq < MaxRequests /\ \E c \in 1..MaxCalls : Free(c)

Emit(name, arg) == Append(emitted, [name |-> name, arg |-> arg])

\* the end of an accepted analyzeEvent without its finally block
AnalyzeReturnFlagKept(c, res) ==
    /\ UNCHANGED isProcessing
    /\ calls' = [calls EXCEPT ![c] = Idle]
    /\ lastReturn' = [kind |-> "analyze", accepted |-> TRUE, result |-> res,
                      text |-> Null]

\* the end of an accepted analyzeEvent: the finally block, then the return
AnalyzeReturn(c, res) ==
    /\ isProcessing' = FALSE
    /\ calls' = [calls EXCEPT ![c] = Idle]
    /\ lastReturn' = [kind |-> "analyze", accepted |-> TRUE, result |-> res,
                      text |-> Null]

\* analyzeEvent up to its first await
AnalyzeEntry ==
    /\ nreq' = nreq + 1
    /\ IF isProcessing
       THEN /\ lastReturn' = [kind |-> "analyze", accepted |-> FALSE,
                                result |-> Null, text |-> Null]
            /\ UNCHANGED <<isProcessing, emitted, calls>>
       ELSE /\ isProcessing' = TRUE
            /\ emitted' = Emit("analysisStarted", Null)
            /\ UNCHANGED lastReturn
            /\ calls' = [calls EXCEPT ![NextSlot] =
                            [Idle EXCEPT !.kind = "analyze", !.pc = "title"]]
    /\ UNCHANGED <<config, configFile, data, eventsFile, fetched,
                   trackerVars, pureVars>>

\* the OCR of event_title returns; the OCR of event_type starts
AnalyzeTitle(c) ==
    /\ calls[c].pc = "title"
    /\ \E titleText \in extractTextFromZone("event_title") :
          calls' = [calls EXCEPT ![c].pc = "type", ![c].titleText = titleText]
    /\ UNCHANGED <<isProcessing, config, configFile, data, eventsFile, emitted,
                   fetched, nreq, lastReturn,
                   trackerVars, pureVars>>

\* the OCR of event_type returns: the text check, parseEventType, and findEvent
\* up to its return or its fetch
AnalyzeType(c) ==
    /\ calls[c].pc = "type"
    /\ \E typeText \in extractTextFromZone("event_type") :
          LET titleText == calls[c].titleText IN
          IF ~Truthy(titleText) \/ ~Truthy(typeText)
          THEN /\ AnalyzeReturn(c, Null)
               /\ UNCHANGED <<emitted, fetched>>
          ELSE LET title == titleText[1]
                   type == parseEventType(typeText[1])
                   uma == config.umamusume
                   events == FilterEvents(data, type, uma)
                   sel == FindEvent(data, events, title)
               IN /\ UNCHANGED <<isProcessing, emitted, lastReturn>>
                  /\ IF sel = 0
                     \* destructuring undefined throws; findEvent catches it
                     \* and returns null
                     THEN /\ calls' = [calls EXCEPT ![c].pc = "complete",
                                          ![c].type = type, ![c].uma = uma,
                                          ![c].events = events, ![c].result = Null]
                          /\ UNCHANGED fetched
                     ELSE IF data[sel].choices # Null
                     THEN /\ calls' = [calls EXCEPT ![c].pc = "complete",
                                          ![c].type = type, ![c].uma = uma,
                                          ![c].events = events, ![c].sel = sel,
                                          ![c].result = data[sel].choices]
                          /\ UNCHANGED fetched
                     ELSE /\ calls' = [calls EXCEPT ![c].pc = "fetch",
                                          ![c].type = type, ![c].uma = uma,
                                          ![c].events = events, ![c].sel = sel,
                                          ![c].index = data[sel].index,
                                          ![c].archive_id = data[sel].archive_id]
                          /\ fetched' = Append(fetched, data[sel].archive_id)
    /\ UNCHANGED <<config, configFile, data, eventsFile, nreq,
                   trackerVars, pureVars>>

\* fetchEvent fails, and the record is given an empty list of choices
AnalyzeFetchFailStoring(c) ==
    /\ calls[c].pc = "fetch"
    /\ calls' = [calls EXCEPT ![c].pc = "complete", ![c].result = Null,
                              ![c].fetchFailed = TRUE]
    /\ data' = [data EXCEPT ![calls[c].sel].choices = Some(<<>>)]
    /\ eventsFile' = data'
    /\ UNCHANGED <<isProcessing, config, configFile, emitted,
                   fetched, nreq, lastReturn,
                   trackerVars, pureVars>>

\* fetchEvent fails: the request, or a page with no table; findEvent catches
AnalyzeFetchFail(c) ==
    /\ calls[c].pc = "fetch"
    /\ calls' = [calls EXCEPT ![c].pc = "complete", ![c].result = Null,
                              ![c].fetchFailed = TRUE]
    /\ UNCHANGED <<isProcessing, config, configFile, data, eventsFile, emitted,
                   fetched, nreq, lastReturn,
                   trackerVars, pureVars>>

\* fetchEvent returns the parsed choices; updateEvents stores and writes them
AnalyzeFetch(c) ==
    /\ calls[c].pc = "fetch"
    /\ \E fetchedChoices \in RemoteChoices, written \in BOOLEAN :
          LET target == UpdateTarget(calls[c].index) IN
          IF target \notin 1..Len(data)
          \* data[index] is undefined: the assignment throws, findEvent catches
          THEN /\ calls' = [calls EXCEPT ![c].pc = "complete", ![c].result = Null]
               /\ UNCHANGED <<data, eventsFile>>
          ELSE /\ data' = [data EXCEPT ![target].choices = Some(fetchedChoices)]
               /\ IF written
                  THEN /\ eventsFile' = data'
                       /\ calls' = [calls EXCEPT ![c].pc = "complete",
                                       ![c].result = Some(fetchedChoices)]
                  \* writeFileSync throws, findEvent catches
                  ELSE /\ UNCHANGED eventsFile
                       /\ calls' = [calls EXCEPT ![c].pc = "complete",
                                       ![c].result = Null]
    /\ UNCHANGED <<isProcessing, config, configFile, emitted, fetched, nreq,
                   lastReturn,
                   trackerVars, pureVars>>

\* findEvent has returned: analysisComplete, the return, the finally block
AnalyzeComplete(c) ==
    /\ calls[c].pc = "complete"
    /\ emitted' = Emit("analysisComplete", calls[c].result)
    /\ AnalyzeReturn(c, calls[c].result)
    /\ UNCHANGED <<config, configFile, data, eventsFile, fetched, nreq,
                   trackerVars, pureVars>>

\* names.some(name => name === characterName), with a prefix test for ===
InRosterPrefix(characterName) ==
    \E i \in 1..Len(names) : startsWith(names[i], characterName)

\* names.some(name => name === characterName)
InRoster(characterName) ==
    \E i \in 1..Len(names) : names[i] = characterName

\* a frame of detectUmamusume returns: its finally block clears the flag; the
\* caller's frame, if any, resumes at its await. text is what the OCR handed
\* last to a frame of the invocation.
DetectReturn(c, res, text) ==
    /\ isProcessing' = FALSE
    /\ IF calls[c].depth = 1
       THEN /\ calls' = [calls EXCEPT ![c] = Idle]
            /\ lastReturn' = [kind |-> "detect", accepted |-> TRUE,
                                result |-> res, text |-> text]
       ELSE /\ calls' = [calls EXCEPT ![c].depth = calls[c].depth - 1,
                                       ![c].pc = "unwind", ![c].result = res,
                                       ![c].text = text]
            /\ UNCHANGED lastReturn

\* detectUmamusume up to its first await
DetectEntry ==
    /\ nreq' = nreq + 1
    /\ IF isProcessing
       THEN /\ lastReturn' = [kind |-> "detect", accepted |-> FALSE,
                                result |-> Null, text |-> Null]
            /\ UNCHANGED <<isProcessing, emitted, calls>>
       ELSE /\ isProcessing' = TRUE
            /\ emitted' = Emit("umamusumeDetectionStarted", Null)
            /\ UNCHANGED lastReturn
            /\ calls' = [calls EXCEPT ![NextSlot] =
                            [Idle EXCEPT !.kind = "detect", !.pc = "ocr",
                                         !.depth = 1]]
    /\ UNCHANGED <<config, configFile, data, eventsFile, fetched,
                   trackerVars, pureVars>>

\* the OCR of the umamusume zone returns with no text, and the frame calls
\* itself again as it does for a text that is no roster name
DetectEmptyRetrying(c) ==
    /\ calls[c].pc = "ocr"
    /\ calls[c].depth < MaxDepth
    /\ \E text \in extractTextFromZone("umamusume") :
          /\ ~Truthy(text)
          /\ isProcessing' = TRUE
          /\ calls' = [calls EXCEPT ![c].depth = calls[c].depth + 1,
                                    ![c].text = text]
    /\ UNCHANGED <<config, configFile, data, eventsFile, emitted, fetched, nreq,
                   lastReturn,
                   trackerVars, pureVars>>

\* the OCR of the umamusume zone returns with no text, and the empty name is
\* stored and written
DetectEmptyStoring(c) ==
    /\ calls[c].pc = "ocr"
    /\ \E text \in extractTextFromZone("umamusume") :
          /\ ~Truthy(text)
          /\ DetectReturn(c, Null, text)
    /\ config' = [config EXCEPT !.umamusume = <<>>]
    /\ configFile' = config'
    /\ UNCHANGED <<data, eventsFile, emitted, fetched, nreq,
                   trackerVars, pureVars>>

\* the OCR of the umamusume zone returns with no text: return null
DetectEmpty(c) ==
    /\ calls[c].pc = "ocr"
    /\ \E text \in extractTextFromZone("umamusume") :
          /\ ~Truthy(text)
          /\ DetectReturn(c, Null, text)
    /\ UNCHANGED <<config, configFile, data, eventsFile, emitted, fetched, nreq,
                   trackerVars, pureVars>>

\* the text is no roster name: the flag is cleared and the nested call made,
\* which passes the guard, sets the flag and runs up to its first await
DetectRetry(c) ==
    /\ calls[c].pc = "ocr"
    /\ calls[c].depth < MaxDepth
    /\ \E text \in extractTextFromZone("umamusume") :
          /\ Truthy(text)
          /\ ~InRoster(trim(text[1]))
          /\ isProcessing' = TRUE
          /\ emitted' = Emit("umamusumeDetectionStarted", Null)
          /\ calls' = [calls EXCEPT ![c].depth = calls[c].depth + 1,
                                    ![c].text = text]
    /\ UNCHANGED <<config, configFile, data, eventsFile, fetched, nreq,
                   lastReturn,
                   trackerVars, pureVars>>

\* the text is a roster name: config is updated and written, the event emitted
DetectFound(c) ==
    /\ calls[c].pc = "ocr"
    /\ \E text \in extractTextFromZone("umamusume"), written \in BOOLEAN :
          /\ Truthy(text)
          /\ InRoster(trim(text[1]))
          /\ LET characterName == trim(text[1]) IN
             /\ config' = [config EXCEPT !.umamusume = characterName]
             /\ IF written
                THEN /\ configFile' = config'
                     /\ emitted' = Emit("umamusumeDetected", Some(characterName))
                     /\ DetectReturn(c, Some(characterName), text)
                \* writeFileSync throws: the catch block
                ELSE /\ UNCHANGED configFile
                     /\ emitted' = Emit("umamusumeDetectionError", Null)
                     /\ DetectReturn(c, Null, text)
    /\ UNCHANGED <<data, eventsFile, fetched, nreq,
                   trackerVars, pureVars>>

\* the nested call has returned: the awaiting frame returns its result and
\* runs its own finally block
DetectUnwind(c) ==
    /\ calls[c].pc = "unwind"
    /\ DetectReturn(c, calls[c].result, calls[c].text)
    /\ UNCHANGED <<config, configFile, data, eventsFile, emitted, fetched, nreq,
                   trackerVars, pureVars>>

\* a request made by the environment while it may make one
AnalyzeRequest == CanRequest /\ AnalyzeEntry
DetectRequest == CanRequest /\ DetectEntry

PipelineInit ==
    /\ isProcessing = FALSE
    /\ config = [umamusume |-> Str_Oguri]
    /\ configFile = config
    /\ data \in Catalogs
    /\ eventsFile = data
    /\ calls = [c \in 1..MaxCalls |-> Idle]
    /\ emitted = <<>>
    /\ fetched = <<>>
    /\ nreq = 0
    /\ lastReturn = [kind |-> "none", accepted |-> FALSE, result |-> Null,
                     text |-> Null]

TrackerIdle ==
    /\ lastWindowInfo = Null
    /\ umamusumeWindow = Null
    /\ windowState = [isCareerProfileActive |-> FALSE, isMenuOpened |-> FALSE,
                      lastCareerProfileCheck |-> 0]
    /\ zones = <<>>
    /\ now = 0
    /\ checks = {}
    /\ tracked = <<>>
    /\ lastTracked = [window |-> "none", career_profile |-> Null, menu |-> Null,
                      failure |-> FALSE]
    /\ prevInfo = Null
    /\ ended = Null
    /\ interval = Null

NoCall == [fn |-> "none", arg |-> <<>>, ret |-> <<>>]
PureIdle == pure = NoCall

Init == PipelineInit /\ TrackerIdle /\ PureIdle

Next ==
    \/ AnalyzeRequest
    \/ DetectRequest
    \/ \E c \in 1..MaxCalls : AnalyzeTitle(c)
    \/ \E c \in 1..MaxCalls : AnalyzeType(c)
    \/ \E c \in 1..MaxCalls : AnalyzeFetchFail(c)
    \/ \E c \in 1..MaxCalls : AnalyzeFetch(c)
    \/ \E c \in 1..MaxCalls : AnalyzeComplete(c)
    \/ \E c \in 1..MaxCalls : DetectEmpty(c)
    \/ \E c \in 1..MaxCalls : DetectRetry(c)
    \/ \E c \in 1..MaxCalls : DetectFound(c)
    \/ \E c \in 1..MaxCalls : DetectUnwind(c)

Spec == Init /\ [][Next]_vars

\* the step that resumes invocation c at its await: the promise of the OCR,
\* of the fetch or of the nested call settles and the event loop runs the
\* continuation
Continue(c) ==
    \/ AnalyzeTitle(c)
    \/ AnalyzeType(c)
    \/ AnalyzeFetchFail(c)
    \/ AnalyzeFetch(c)
    \/ AnalyzeComplete(c)
    \/ DetectEmpty(c)
    \/ DetectRetry(c)
    \/ DetectFound(c)
    \/ DetectUnwind(c)

\* a detection that unwinds its retry chain and the resolutions requested
\* meanwhile
AnalyzeRequestOverlap ==
    /\ nreq < MaxOverlapRequests
    /\ \E c \in 1..MaxCalls : Free(c)
    /\ AnalyzeEntry
DetectRequestOverlap ==
    /\ nreq < MaxOverlapRequests
    /\ \E c \in 1..MaxCalls : Free(c)
    /\ DetectEntry

NextOverlap ==
    \/ AnalyzeRequestOverlap
    \/ DetectRequestOverlap
    \/ \E c \in 1..MaxCalls : AnalyzeTitle(c)
    \/ \E c \in 1..MaxCalls : AnalyzeType(c)
    \/ \E c \in 1..MaxCalls : AnalyzeFetchFail(c)
    \/ \E c \in 1..MaxCalls : AnalyzeFetch(c)
    \/ \E c \in 1..MaxCalls : AnalyzeComplete(c)
    \/ \E c \in 1..MaxCalls : DetectEmpty(c)
    \/ \E c \in 1..MaxCalls : DetectRetry(c)
    \/ \E c \in 1..MaxCalls : DetectFound(c)
    \/ \E c \in 1..MaxCalls : DetectUnwind(c)

SpecOverlap == Init /\ [][NextOverlap]_vars

AnalyzeRequestLive == nreq < MaxLiveRequests /\ AnalyzeRequest
DetectRequestLive == nreq < MaxLiveRequests /\ DetectRequest

NextLive ==
    \/ AnalyzeRequestLive
    \/ DetectRequestLive
    \/ \E c \in 1..MaxCalls : AnalyzeTitle(c)
    \/ \E c \in 1..MaxCalls : AnalyzeType(c)
    \/ \E c \in 1..MaxCalls : AnalyzeFetchFail(c)
    \/ \E c \in 1..MaxCalls : AnalyzeFetch(c)
    \/ \E c \in 1..MaxCalls : AnalyzeComplete(c)
    \/ \E c \in 1..MaxCalls : DetectEmpty(c)
    \/ \E c \in 1..MaxCalls : DetectRetry(c)
    \/ \E c \in 1..MaxCalls : DetectFound(c)
    \/ \E c \in 1..MaxCalls : DetectUnwind(c)

\* every awaited promise settles
SpecLive ==
    Init /\ [][NextLive]_vars /\ \A c \in 1..MaxCalls : WF_vars(Continue(c))

--------------------------------------------------------------------------
(* WindowTracker. *)

\* setInterval(..., 1000 / 30), in whole milliseconds
TickPeriod == 33
CAREER_PROFILE_CHECK_INTERVAL == 100
\* Date.now() when the tracker is constructed
StartTime == 10 * CAREER_PROFILE_CHECK_INTERVAL

\* config.json: padding.top, padding.bottom
PaddingTop == 20
PaddingBottom == 10

Str_Umamusume == <<"U","m","a","m","u","s","u","m","e">>

\* data/zones.json, the fractions in hundredths
ZonesWithIcon == <<
    [name |-> "career_profile_icon", left |-> 5, width |-> 10, top |-> 0, bottom |-> 90],
    [name |-> "event_title", left |-> 10, width |-> 70, top |-> 15, bottom |-> 75] >>
ZonesWithoutIcon == << ZonesWithIcon[2] >>
ZoneFiles == {ZonesWithIcon, ZonesWithoutIcon}

\* The arithmetic of calculateCaptureZones is that of JavaScript Numbers,
\* IEEE 754 doubles. Every value it computes from a fraction written in
\* hundredths and a size in pixels is a multiple of 2^-80 below 2^20, so a
\* Number is held exactly as a sign and a count of 2^-80 in five limbs of
\* twenty bits, lowest first; the fifth limb is the integer part. Each
\* operation computes the exact result and rounds it to 53 significant
\* bits, ties to even, as the operation on doubles does.
LimbBits == 20
NumLimbs == 5
SignificandBits == 53

\* the Number of the given sign whose magnitude is nearest to the one with
\* the limbs raw, which may hold carries and borrows; inexact says that the
\* magnitude was already cut below its lowest bit
RoundToDouble(neg, raw, inexact) ==
    LET RECURSIVE CarryFrom(_, _, _)
        CarryFrom(t, i, carry) ==
            IF i > NumLimbs THEN <<>>
            ELSE LET c == t[i] + carry
                 IN <<c % (2 ^ LimbBits)>>
                    \o CarryFrom(t, i + 1, c \div (2 ^ LimbBits))
        RECURSIVE BitsOf(_)
        BitsOf(x) == IF x = 0 THEN 0 ELSE 1 + BitsOf(x \div 2)
        RECURSIVE BitLengthFrom(_, _)
        BitLengthFrom(s, i) ==
            IF i = 0 THEN 0
            ELSE IF s[i] # 0 THEN LimbBits * (i - 1) + BitsOf(s[i])
            ELSE BitLengthFrom(s, i - 1)
        BitAt(s, p) ==
            (s[(p \div LimbBits) + 1] \div (2 ^ (p % LimbBits))) % 2
        ClearLow(s, p) ==
            [i \in 1..NumLimbs |->
                IF LimbBits * i <= p THEN 0
                ELSE IF LimbBits * (i - 1) >= p THEN s[i]
                ELSE s[i] - (s[i] % (2 ^ (p - LimbBits * (i - 1))))]
        \* ties go to the even significand
        Nearest(s, drop, kept, cleared) ==
            IF /\ BitAt(s, drop - 1) = 1
               /\ (inexact \/ cleared # s \/ BitAt(s, drop) = 1)
            THEN CarryFrom([i \in 1..NumLimbs |->
                               IF i = (drop \div LimbBits) + 1
                               THEN kept[i] + 2 ^ (drop % LimbBits)
                               ELSE kept[i]], 1, 0)
            ELSE kept
        Cut(s, drop) ==
            IF drop <= 0 THEN s
            ELSE Nearest(s, drop, ClearLow(s, drop), ClearLow(s, drop - 1))
        Rounded(s) == Cut(s, BitLengthFrom(s, NumLimbs) - SignificandBits)
        Signed(mag) ==
            [neg |-> neg /\ (\E i \in 1..NumLimbs : mag[i] # 0), mag |-> mag]
    IN Signed(Rounded(CarryFrom(raw, 1, 0)))

NumberOfInt(n) ==
    RoundToDouble(n < 0,
                  [i \in 1..NumLimbs |->
                      IF i = NumLimbs THEN (IF n < 0 THEN -n ELSE n) ELSE 0],
                  FALSE)

\* JSON.parse of a fraction written as hundredths/100: the quotient by 100,
\* from the highest limb down, rounded
NumberOfHundredths(h) ==
    LET RECURSIVE DivideFrom(_, _)
        DivideFrom(i, rem) ==
            IF i = 0 THEN [quot |-> <<>>, rem |-> rem]
            ELSE LET cur == rem * (2 ^ LimbBits)
                               + (IF i = NumLimbs THEN h ELSE 0)
                     rest == DivideFrom(i - 1, cur % 100)
                 IN [quot |-> rest.quot \o <<cur \div 100>>, rem |-> rest.rem]
        q == DivideFrom(NumLimbs, 0)
    IN RoundToDouble(FALSE, q.quot, q.rem # 0)

\* a - b
Minus(a, b) ==
    LET RECURSIVE LessFrom(_)
        LessFrom(i) ==
            IF i = 0 THEN FALSE
            ELSE IF a.mag[i] # b.mag[i] THEN a.mag[i] < b.mag[i]
            ELSE LessFrom(i - 1)
        \* the sign of the difference and how the magnitudes combine
        Difference(neg, ofA, ofB) ==
            RoundToDouble(neg,
                          [i \in 1..NumLimbs |->
                              ofA * a.mag[i] + ofB * b.mag[i]],
                          FALSE)
        Opposite(less) ==
            IF less THEN Difference(~a.neg, -1, 1)
            ELSE Difference(a.neg, 1, -1)
    IN IF a.neg # b.neg THEN Difference(a.neg, 1, 1)
       ELSE Opposite(LessFrom(NumLimbs))

\* n * a for an integer n
Times(n, a) ==
    RoundToDouble(a.neg # (n < 0),
                  [i \in 1..NumLimbs |->
                      a.mag[i] * (IF n < 0 THEN -n ELSE n)],
                  FALSE)

\* Math.floor
Floor(a) ==
    LET whole == a.mag[NumLimbs]
        fraction == \E i \in 1..(NumLimbs - 1) : a.mag[i] # 0
    IN IF a.neg THEN (IF fraction THEN -whole - 1 ELSE -whole) ELSE whole

\* the windows of the desktop, as Window.all() returns them
Geometry0 == [x |-> 0, y |-> 0, width |-> 100, height |-> 200]
Geometries == {Geometry0, [Geometry0 EXCEPT !.x = 10], [Geometry0 EXCEPT !.y = 10],
               [Geometry0 EXCEPT !.width = 120], [Geometry0 EXCEPT !.height = 240]}
OsWindow(g, title, appName) ==
    [title |-> title, appName |-> appName, x |-> g.x, y |-> g.y,
     width |-> g.width, height |-> g.height]
OtherWindow == OsWindow(Geometry0, <<"N","o","t","e","s">>, "notes")
WindowLists ==
    {<<>>}
    \cup {<<OsWindow(g, Str_Umamusume, "game")>> : g \in Geometries}
    \cup {<<OtherWindow,
            OsWindow(Geometry0, Str_Umamusume \o <<" ","2">>, "launcher")>>}

\* findWindow: the first window whose title includes 'Umamusume'
findWindow(windows) ==
    LET hits == SelectSeq(windows, LAMBDA w : includes(w.title, Str_Umamusume))
    IN IF hits = <<>> THEN Null ELSE Some(hits[1])

\* the zones measured on the whole height of the window, padding included
calculateCaptureZonesFullHeight(zs, windowWidth, windowHeight) ==
    [i \in 1..Len(zs) |->
        LET left == NumberOfHundredths(zs[i].left)
            width == NumberOfHundredths(zs[i].width)
            top == NumberOfHundredths(zs[i].top)
            bottom == NumberOfHundredths(zs[i].bottom)
        IN [name |-> zs[i].name,
            x |-> Floor(Times(windowWidth, left)),
            y |-> PaddingTop + Floor(Times(windowHeight, top)),
            width |-> Floor(Times(windowWidth, width)),
            height |-> Floor(Times(windowHeight,
                                   Minus(Minus(NumberOfInt(1), top), bottom))),
            absoluteX |-> 0, absoluteY |-> 0]]

calculateCaptureZones(zs, windowWidth, windowHeight) ==
    LET availableHeight == windowHeight - PaddingTop - PaddingBottom
    IN [i \in 1..Len(zs) |->
           LET left == NumberOfHundredths(zs[i].left)
               width == NumberOfHundredths(zs[i].width)
               top == NumberOfHundredths(zs[i].top)
               bottom == NumberOfHundredths(zs[i].bottom)
           IN [name |-> zs[i].name,
               x |-> Floor(Times(windowWidth, left)),
               y |-> PaddingTop + Floor(Times(availableHeight, top)),
               width |-> Floor(Times(windowWidth, width)),
               height |-> Floor(Times(availableHeight,
                                      Minus(Minus(NumberOfInt(1), top),
                                            bottom))),
               absoluteX |-> 0, absoluteY |-> 0]]

\* calculateCaptureZones depends on the zone file and the size of the window
\* alone: what it returns for the zone files and window sizes of the tracker
\* is computed once and looked up
CaptureZonesComputed ==
    {[zs |-> zs, width |-> g.width, height |-> g.height,
      captures |-> calculateCaptureZones(zs, g.width, g.height)] :
        zs \in ZoneFiles, g \in Geometries}
CaptureZonesFor(zs, windowWidth, windowHeight) ==
    LET computed == {t \in CaptureZonesComputed :
                        /\ t.width = windowWidth
                        /\ t.height = windowHeight
                        /\ t.zs = zs}
    IN IF computed = {}
       THEN calculateCaptureZones(zs, windowWidth, windowHeight)
       ELSE (CHOOSE t \in computed : TRUE).captures

\* getWindowInfo, given what findWindow found
getWindowInfo(zs, found) ==
    LET Info(w, captures) ==
            [window |-> [x |-> w.x, y |-> w.y, width |-> w.width,
                         height |-> w.height, title |-> w.title,
                         appName |-> w.appName, visible |-> TRUE],
             captures |-> [i \in 1..Len(captures) |->
                              [captures[i] EXCEPT
                                  !.absoluteX = w.x + captures[i].x,
                                  !.absoluteY = w.y + captures[i].y]]]
        Found(w) == Info(w, CaptureZonesFor(zs, w.width, w.height))
    IN IF found = Null THEN Null ELSE Some(Found(found[1]))

hasWindowChangedNoHeight(current, previous) ==
    \/ current.window.x # previous.window.x
    \/ current.window.y # previous.window.y
    \/ current.window.width # previous.window.width
    \/ current.window.visible # previous.window.visible

hasWindowChanged(current, previous) ==
    \/ current.window.x # previous.window.x
    \/ current.window.y # previous.window.y
    \/ current.window.width # previous.window.width
    \/ current.window.height # previous.window.height
    \/ current.window.visible # previous.window.visible

Track(log, name, arg) == Append(log, [name |-> name, arg |-> arg])

\* the last event of each kind, after the events of log
RECURSIVE LastAfter(_, _)
LastAfter(last, log) ==
    IF log = <<>> THEN last
    ELSE LET e == Head(log)
             next == IF e.name = "career_profile"
                     THEN [last EXCEPT !.career_profile = e.arg]
                     ELSE IF e.name = "menu"
                     THEN [last EXCEPT !.menu = e.arg]
                     ELSE [last EXCEPT !.window = e.name]
         IN LastAfter(next, Tail(log))

\* the test of the not-found branch: lastWindowInfo?.window.visible
WasVisibleAlways == TRUE
WasVisible == lastWindowInfo # Null /\ lastWindowInfo[1].window.visible

\* the geometry part of the interval callback: the value of lastWindowInfo
\* and the events emitted, for currentInfo found
AfterFound(currentInfo) ==
    IF lastWindowInfo = Null THEN currentInfo ELSE lastWindowInfo
AfterMoved(currentInfo) ==
    IF hasWindowChanged(currentInfo[1], AfterFound(currentInfo)[1])
    THEN currentInfo ELSE AfterFound(currentInfo)
GeometryEventsEveryTick(currentInfo) ==
    LET found == Track(<<>>, "windowFound", Null)
    IN IF hasWindowChanged(currentInfo[1], AfterFound(currentInfo)[1])
       THEN Track(found, "windowMoved", Null) ELSE found

GeometryEvents(currentInfo) ==
    LET found == IF lastWindowInfo = Null
                 THEN Track(<<>>, "windowFound", Null) ELSE <<>>
    IN IF hasWindowChanged(currentInfo[1], AfterFound(currentInfo)[1])
       THEN Track(found, "windowMoved", Null) ELSE found

\* windowInfo.captures.find(...) of checkCareerProfilePageActive, and the
\* rectangle it passes to image.crop
CareerProfileIconZone(windowInfo) ==
    LET hits == SelectSeq(windowInfo.captures,
                          LAMBDA capture : capture.name = "career_profile_icon")
    IN IF hits = <<>> THEN Null
       ELSE Some([x |-> hits[1].x, y |-> hits[1].y, width |-> hits[1].width,
                  height |-> hits[1].height])

\* whether checkCareerProfilePageActive returns at its throttle, at time t
Throttled(t) ==
    t - windowState.lastCareerProfileCheck < CAREER_PROFILE_CHECK_INTERVAL

\* one run of the interval callback, with checkCareerProfilePageActive up to
\* its first await; windows is what Window.all() returns during it
Tick(windows) ==
    /\ interval # Null
    /\ now < StartTime + MaxTicks * TickPeriod
    /\ now' = now + TickPeriod
    /\ LET found == findWindow(windows)
           currentInfo == getWindowInfo(zones, found)
       IN /\ umamusumeWindow' = found
          /\ prevInfo' = currentInfo
          /\ IF currentInfo = Null
             THEN /\ IF WasVisible
                     THEN /\ tracked' = Track(<<>>, "windowHidden", Null)
                          /\ lastWindowInfo' = Null
                     ELSE /\ tracked' = <<>>
                          /\ UNCHANGED lastWindowInfo
                  /\ UNCHANGED checks
             ELSE /\ lastWindowInfo' = AfterMoved(currentInfo)
                  /\ tracked' = GeometryEvents(currentInfo)
                  /\ IF Throttled(now')
                     THEN UNCHANGED checks
                     \* getWindowInfo again, then captureImage is awaited
                     ELSE /\ Cardinality(checks) < MaxChecks
                          /\ checks' = checks \cup
                                {[pc |-> "capture", now |-> now',
                                  zone |-> CareerProfileIconZone(currentInfo[1]),
                                  blurResult |-> FALSE, blurFailed |-> FALSE]}
    /\ lastTracked' = LastAfter(lastTracked, tracked')
    /\ ended' = Null
    /\ UNCHANGED <<windowState, zones, interval,
                   pipelineVars, pureVars>>

\* captureImage resolves: the zone is looked up; crop, toPng and the
\* comparison with the blurred icon are awaited
CheckCapture(k) ==
    /\ k.pc = "capture"
    /\ IF k.zone # Null
       \* image.crop takes the rectangle, which is not used after it; the
       \* image was taken between the call of captureImage and now, of the
       \* window as it was then: as the sub-check found it, or as the latest
       \* tick found it
       THEN /\ checks' = (checks \ {k})
                         \cup {[k EXCEPT !.pc = "blur", !.zone = Null]}
            /\ \E late \in BOOLEAN :
                  ended' = Some([how |-> "cropped", started |-> k.now,
                                 blurMatch |-> FALSE, iconMatch |-> FALSE,
                                 rect |-> k.zone,
                                 current |-> IF late /\ prevInfo # Null
                                             THEN CareerProfileIconZone(prevInfo[1])
                                             ELSE k.zone])
       \* no career_profile_icon zone: return false
       ELSE /\ checks' = checks \ {k}
            /\ ended' = Some([how |-> "nozone", started |-> k.now,
                              blurMatch |-> FALSE, iconMatch |-> FALSE,
                      rect |-> Null, current |-> Null])
    /\ tracked' = <<>>
    /\ UNCHANGED <<lastWindowInfo, umamusumeWindow, windowState, zones, now,
                   lastTracked, prevInfo, interval,
                   pipelineVars, pureVars>>

\* what a call of compareImageSimilarity may come to: the images compared
\* and found similar or not, or an error raised by sharp (the reference
\* image cannot be read, a buffer cannot be decoded)
CompareOutcomes == {"match", "nomatch", "failed"}

\* what compareImageSimilarity returns: result.isMatch, false from the catch
\* block
CompareResult(outcome) ==
    IF outcome = "failed" THEN FALSE ELSE outcome = "match"

\* the first comparison resolves: toPng and the comparison with the active
\* icon are awaited
CheckBlur(k) ==
    /\ k.pc = "blur"
    /\ \E outcome \in CompareOutcomes :
          LET blurResult == CompareResult(outcome) IN
          checks' = (checks \ {k})
                    \cup {[k EXCEPT !.pc = "icon", !.blurResult = blurResult,
                                    !.blurFailed = (outcome = "failed")]}
    /\ tracked' = <<>>
    /\ ended' = Null
    /\ UNCHANGED <<lastWindowInfo, umamusumeWindow, windowState, zones, now,
                   lastTracked, prevInfo, interval,
                   pipelineVars, pureVars>>

\* the events emitted on every completed check, flipped or not
FlagEventsEveryCheck(isActive, blurResult) ==
    Track(Track(<<>>, "career_profile", Some(isActive)), "menu", Some(blurResult))

\* the events of the edge test of checkCareerProfilePageActive
FlagEvents(isActive, blurResult) ==
    LET wasActive == windowState.isCareerProfileActive
        wasBlurred == windowState.isMenuOpened
        career == IF isActive /\ ~wasActive
                  THEN Track(<<>>, "career_profile", Some(TRUE))
                  ELSE IF ~isActive /\ wasActive
                  THEN Track(<<>>, "career_profile", Some(FALSE))
                  ELSE <<>>
    IN IF blurResult /\ ~wasBlurred
       THEN Track(career, "menu", Some(TRUE))
       ELSE IF ~blurResult /\ wasBlurred
       THEN Track(career, "menu", Some(FALSE))
       ELSE career

\* the update of windowState, made only when a flag flips
UpdatedStateOnFlip(isActive, blurResult, started) ==
    IF isActive = windowState.isCareerProfileActive
       /\ blurResult = windowState.isMenuOpened
    THEN windowState
    ELSE [isCareerProfileActive |-> isActive, isMenuOpened |-> blurResult,
          lastCareerProfileCheck |-> started]

\* the update of windowState with the menu flag and not the active flag
UpdatedStateMenuOnly(isActive, blurResult, started) ==
    [isCareerProfileActive |-> windowState.isCareerProfileActive,
     isMenuOpened |-> blurResult,
     lastCareerProfileCheck |-> started]

\* the update of windowState that ends checkCareerProfilePageActive
UpdatedState(isActive, blurResult, started) ==
    [isCareerProfileActive |-> isActive, isMenuOpened |-> blurResult,
     lastCareerProfileCheck |-> started]

\* the second comparison resolves: the edge test, the emissions, the update
CheckIcon(k) ==
    /\ k.pc = "icon"
    /\ \E outcome \in CompareOutcomes :
          LET blurResult == k.blurResult
              iconResult == CompareResult(outcome)
              isActive == iconResult \/ blurResult
          IN /\ tracked' = FlagEvents(isActive, blurResult)
             /\ windowState' = UpdatedState(isActive, blurResult, k.now)
             /\ ended' = Some([how |-> "completed", started |-> k.now,
                               blurMatch |-> blurResult,
                               iconMatch |-> iconResult,
                               rect |-> Null, current |-> Null])
    /\ lastTracked' = LastAfter(lastTracked, tracked')
    /\ checks' = checks \ {k}
    /\ UNCHANGED <<lastWindowInfo, umamusumeWindow, zones, now, prevInfo,
                   interval,
                   pipelineVars, pureVars>>

\* a failed sub-check that resets windowState to its constructed value
CheckErrorResetting(k) ==
    /\ k.pc \in {"capture", "blur", "icon"}
    /\ checks' = checks \ {k}
    /\ tracked' = <<>>
    /\ ended' = Some([how |-> "failed", started |-> k.now,
                      blurMatch |-> FALSE, iconMatch |-> FALSE,
                      rect |-> Null, current |-> Null])
    /\ windowState' = [isCareerProfileActive |-> FALSE, isMenuOpened |-> FALSE,
                       lastCareerProfileCheck |-> 0]
    /\ lastTracked' = [lastTracked EXCEPT !.failure = TRUE]
    /\ UNCHANGED <<lastWindowInfo, umamusumeWindow, zones, now,
                   prevInfo, interval,
                   pipelineVars, pureVars>>

\* a failed sub-check whose error leaves the interval callback: the
\* rejection is not handled and the timer goes with the process
CheckErrorUncaught(k) ==
    /\ k.pc \in {"capture", "blur", "icon"}
    /\ checks' = checks \ {k}
    /\ tracked' = <<>>
    /\ ended' = Some([how |-> "failed", started |-> k.now,
                      blurMatch |-> FALSE, iconMatch |-> FALSE,
                      rect |-> Null, current |-> Null])
    /\ lastTracked' = [lastTracked EXCEPT !.failure = TRUE]
    /\ interval' = Null
    /\ UNCHANGED <<lastWindowInfo, umamusumeWindow, windowState, zones, now,
                   prevInfo, pipelineVars, pureVars>>

\* captureImage, crop or toPng rejects: the catch block
CheckError(k) ==
    /\ k.pc \in {"capture", "blur", "icon"}
    /\ checks' = checks \ {k}
    /\ tracked' = <<>>
    /\ ended' = Some([how |-> "failed", started |-> k.now,
                      blurMatch |-> FALSE, iconMatch |-> FALSE,
                      rect |-> Null, current |-> Null])
    /\ lastTracked' = [lastTracked EXCEPT !.failure = TRUE]
    /\ UNCHANGED <<lastWindowInfo, umamusumeWindow, windowState, zones, now,
                   prevInfo, interval,
                   pipelineVars, pureVars>>

TrackerInit ==
    /\ lastWindowInfo = Null
    /\ umamusumeWindow = Null
    /\ windowState = [isCareerProfileActive |-> FALSE, isMenuOpened |-> FALSE,
                      lastCareerProfileCheck |-> 0]
    /\ zones \in ZoneFiles
    /\ now = StartTime
    /\ checks = {}
    /\ tracked = <<>>
    /\ lastTracked = [window |-> "none", career_profile |-> Null, menu |-> Null,
                      failure |-> FALSE]
    /\ prevInfo = Null
    /\ ended = Null
    /\ interval = Some("timer")

PipelineIdle ==
    /\ isProcessing = FALSE
    /\ config = [umamusume |-> Str_Oguri]
    /\ configFile = config
    /\ data = CatalogAligned
    /\ eventsFile = data
    /\ calls = [c \in 1..MaxCalls |-> Idle]
    /\ emitted = <<>>
    /\ fetched = <<>>
    /\ nreq = 0
    /\ lastReturn = [kind |-> "none", accepted |-> FALSE, result |-> Null,
                     text |-> Null]

InitTracker == TrackerInit /\ PipelineIdle /\ PureIdle

NextTracker ==
    \/ \E windows \in WindowLists : Tick(windows)
    \/ \E k \in checks : CheckCapture(k)
    \/ \E k \in checks : CheckBlur(k)
    \/ \E k \in checks : CheckIcon(k)
    \/ \E k \in checks : CheckError(k)

SpecTracker == InitTracker /\ [][NextTracker]_vars

--------------------------------------------------------------------------
(* The functions without state. *)

\* Concat(ws): the strings of ws joined
RECURSIVE Concat(_)
Concat(ws) == IF ws = <<>> THEN <<>> ELSE Head(ws) \o Concat(Tail(ws))

\* sequences over S of length at most n
SeqsUpTo(S, n) == UNION {[1..k -> S] : k \in 0..n}

\* texts the OCR may hand to parseEventType: up to MaxWords pieces
MaxWords == 3
TypeWords == {Str_Trainee, <<"S","U","P","P","O","R","T">>, Str_scenario,
              <<"?","?","?"," ">>, <<"t","r","a","i","n">>}
TypeTexts == {Concat(ws) : ws \in SeqsUpTo(TypeWords, MaxWords)}

\* image.ts
DEFAULT_SIMILARITY_THRESHOLD == 55     \* 0.55, in hundredths
DEFAULT_TOLERANCE == 30
\* pixels of a normalised raster (COMPARISON_SIZE * COMPARISON_SIZE in the code)
Pixels == 2

Black == <<0, 0, 0>>
Dark == <<10, 10, 10>>
White == <<255, 255, 255>>
Palette == {Black, Dark, White}

\* an encoded image: whether sharp can decode it, its channels (3, or 4 with
\* alpha), and the colours of its raster once resized
Undecodable == [decodable |-> FALSE, channels |-> 3, pixels |-> <<>>]
Images ==
    {Undecodable}
    \cup [decodable : {TRUE}, channels : {3, 4}, pixels : [1..Pixels -> Palette]]

\* thresholds, in hundredths
Thresholds == {0, DEFAULT_SIMILARITY_THRESHOLD, 99, 100}

\* sharp(buffer).resize(...).raw().toBuffer(): the bytes of the raster,
\* channels bytes a pixel, alpha opaque
Raw(image) ==
    Concat([p \in 1..Len(image.pixels) |->
               IF image.channels = 4 THEN image.pixels[p] \o <<255>>
               ELSE image.pixels[p]])

\* buffer[i], undefined past the end
At(buffer, i) == IF i < Len(buffer) THEN Some(buffer[i + 1]) ELSE Null

Abs(x) == IF x < 0 THEN -x ELSE x

\* Math.abs(a - b), NaN (absent) if either is undefined
AbsDiff(a, b) == IF a = Null \/ b = Null THEN Null ELSE Some(Abs(a[1] - b[1]))

\* diff of calculateSimilarity for the bytes at i, i + 1, i + 2
Diff(buffer1, buffer2, i) ==
    LET d0 == AbsDiff(At(buffer1, i), At(buffer2, i))
        d1 == AbsDiff(At(buffer1, i + 1), At(buffer2, i + 1))
        d2 == AbsDiff(At(buffer1, i + 2), At(buffer2, i + 2))
    IN IF d0 = Null \/ d1 = Null \/ d2 = Null THEN Null
       ELSE Some(d0[1] + d1[1] + d2[1])

\* the similarity matches / pixelCount as the fraction num / den
calculateSimilarityNoLengthTest(buffer1, buffer2, tolerance) ==
    LET steps == {i \in 0..(Len(buffer1) - 1) : i % 3 = 0}
        matches == Cardinality({i \in steps :
                        /\ Diff(buffer1, buffer2, i) # Null
                        /\ Diff(buffer1, buffer2, i)[1] <= tolerance})
    IN [num |-> 3 * matches, den |-> Len(buffer1)]

calculateSimilarity(buffer1, buffer2, tolerance) ==
    IF Len(buffer1) # Len(buffer2) THEN [num |-> 0, den |-> 1]
    ELSE LET steps == {i \in 0..(Len(buffer1) - 1) : i % 3 = 0}
             matches == Cardinality({i \in steps :
                             /\ Diff(buffer1, buffer2, i) # Null
                             /\ Diff(buffer1, buffer2, i)[1] <= tolerance})
         IN [num |-> 3 * matches, den |-> Len(buffer1)]

\* similarity >= threshold
ExceedsOrEquals(similarity, threshold) ==
    similarity.num * 100 >= threshold * similarity.den

\* similarity > threshold
Exceeds(similarity, threshold) ==
    similarity.num * 100 > threshold * similarity.den

\* compareImageBuffers: absent when sharp rejects (the promise rejects)
compareImageBuffers(buffer1, buffer2, threshold) ==
    IF ~buffer1.decodable \/ ~buffer2.decodable THEN Null
    ELSE LET similarity ==
                 calculateSimilarity(Raw(buffer1), Raw(buffer2), DEFAULT_TOLERANCE)
         IN Some([similarity |-> similarity,
                  isMatch |-> Exceeds(similarity, threshold),
                  threshold |-> threshold])

\* compareImageSimilarity: the reference image is read, then compared; false
\* from the catch block
compareImageSimilarity(reference, croppedImageBuffer, threshold) ==
    IF ~reference.decodable THEN FALSE
    ELSE LET result == compareImageBuffers(reference, croppedImageBuffer, threshold)
         IN IF result = Null THEN FALSE ELSE result[1].isMatch

CompareImageBuffersCall ==
    /\ pure = NoCall
    /\ \E buffer1, buffer2 \in Images, threshold \in Thresholds :
          pure' = [fn |-> "compareImageBuffers",
                   arg |-> <<buffer1, buffer2, threshold>>,
                   ret |-> compareImageBuffers(buffer1, buffer2, threshold)]
    /\ UNCHANGED <<pipelineVars, trackerVars>>

CompareImageSimilarityCall ==
    /\ pure = NoCall
    /\ \E reference, cropped \in Images, threshold \in Thresholds :
          pure' = [fn |-> "compareImageSimilarity",
                   arg |-> <<reference, cropped, threshold>>,
                   ret |-> compareImageSimilarity(reference, cropped, threshold)]
    /\ UNCHANGED <<pipelineVars, trackerVars>>

\* events.ts: parseChoicesTable

\* the first position at or after from where pat occurs in s, 0 if none
IndexFrom(s, pat, from) ==
    LET hits == {i \in from..(Len(s) - Len(pat) + 1) :
                    SubSeq(s, i, i + Len(pat) - 1) = pat}
    IN IF hits = {} THEN 0 ELSE CHOOSE i \in hits : \A j \in hits : i <= j

IndexOf(s, pat) == IndexFrom(s, pat, 1)

\* s.replace(pat, ''): the first occurrence removed
RemoveFirst(s, pat) ==
    LET i == IndexOf(s, pat)
    IN IF i = 0 THEN s
       ELSE SubSeq(s, 1, i - 1) \o SubSeq(s, i + Len(pat), Len(s))

\* s.split(sep)
RECURSIVE Split(_, _)
Split(s, sep) ==
    LET i == IndexOf(s, sep)
    IN IF i = 0 THEN <<s>>
       ELSE <<SubSeq(s, 1, i - 1)>> \o Split(SubSeq(s, i + Len(sep), Len(s)), sep)

\* item.replace(/・/g, '')
RemoveBullets(s) == SelectSeq(s, LAMBDA c : c # "・")

\* text.replace(/<hr[^>]*>/g, '')
RECURSIVE RemoveHr(_)
RemoveHr(s) ==
    LET i == IndexOf(s, <<"<","h","r">>)
        j == IF i = 0 THEN 0 ELSE IndexFrom(s, <<">">>, i + 3)
    IN IF i = 0 \/ j = 0 THEN s
       ELSE SubSeq(s, 1, i - 1) \o RemoveHr(SubSeq(s, j + 1, Len(s)))

\* text.replace(/\s+/g, ' ')
RECURSIVE CollapseSpaces(_)
CollapseSpaces(s) ==
    IF s = <<>> THEN <<>>
    ELSE IF IsSpace(Head(s))
    THEN IF Len(s) > 1 /\ IsSpace(s[2]) THEN CollapseSpaces(Tail(s))
         ELSE <<" ">> \o CollapseSpaces(Tail(s))
    ELSE <<Head(s)>> \o CollapseSpaces(Tail(s))

Digits == <<"0","1","2","3","4","5","6","7","8","9">>
DigitValue(c) == (CHOOSE i \in 1..10 : Digits[i] = c) - 1
IsDigit(c) == \E i \in 1..10 : Digits[i] = c

\* parseInt of a text that starts with digits: the leading digits, base 10
RECURSIVE ParseDigits(_, _)
ParseDigits(s, acc) ==
    IF s = <<>> \/ ~IsDigit(Head(s)) THEN acc
    ELSE ParseDigits(Tail(s), 10 * acc + DigitValue(Head(s)))
\* NaN, which is no number of a choice
NaN == -1
\* parseInt: NaN for a text that does not start with a digit
parseInt(s) ==
    LET t == trim(s)
    IN IF t = <<>> \/ ~IsDigit(Head(t)) THEN NaN ELSE ParseDigits(t, 0)

\* choiceCell.querySelector('b'): the text of the first b element, absent if
\* the cell has none
BoldText(cellHtml) ==
    LET i == IndexOf(cellHtml, <<"<","b",">">>)
        j == IF i = 0 THEN 0 ELSE IndexFrom(cellHtml, <<"<","/","b",">">>, i + 3)
    IN IF i = 0 \/ j = 0 THEN Null ELSE Some(SubSeq(cellHtml, i + 3, j - 1))

\* html.match(/<\/b[^>]*>(.*)/s): what follows the first closing b tag
AfterBold(cellHtml) ==
    LET i == IndexOf(cellHtml, <<"<","/","b">>)
        j == IF i = 0 THEN 0 ELSE IndexFrom(cellHtml, <<">">>, i + 3)
    IN IF i = 0 \/ j = 0 THEN <<>> ELSE SubSeq(cellHtml, j + 1, Len(cellHtml))

\* clean.match(/\(([^)]+)\)/): the content of the first parenthesis that is
\* not empty, '' if none
ParenContent(clean) ==
    LET opens == {i \in 1..Len(clean) :
                    /\ clean[i] = "("
                    /\ IndexFrom(clean, <<")">>, i + 1) > i + 1}
    IN IF opens = {} THEN <<>>
       ELSE LET i == CHOOSE i \in opens : \A j \in opens : i <= j
            IN SubSeq(clean, i + 1, IndexFrom(clean, <<")">>, i + 1) - 1)

\* the outcome lines of a cell
Outcomes(outcomeHtml) ==
    LET items == Split(outcomeHtml, <<"<","b","r",">">>)
        cleaned == [k \in 1..Len(items) |-> trim(RemoveBullets(items[k]))]
    IN SelectSeq(cleaned, LAMBDA item : Len(item) > 0)

Str_success == <<"s","u","c","c","e","s","s">>
Str_fail == <<"f","a","i","l">>

NewChoice(choiceNumber) ==
    [choice |-> choiceNumber, text |-> <<>>, success |-> <<>>, failure |-> <<>>]

\* the routing of the row callback, with every tagged row but "success"
\* taken for a failure
RouteTagAsFailure(choice, content, outcomes) ==
    IF toLowerCase(content) = Str_success \/ content = <<>>
    THEN [choice EXCEPT !.success = outcomes]
    ELSE [choice EXCEPT !.failure = outcomes]

\* the routing of the row callback: lines 94-103
Route(choice, content, outcomes) ==
    IF toLowerCase(content) = Str_success
    THEN [choice EXCEPT !.success = outcomes]
    ELSE IF toLowerCase(content) = Str_fail
    THEN [choice EXCEPT !.failure = outcomes]
    ELSE IF content # <<>>
    THEN [choice EXCEPT !.text = content, !.success = outcomes]
    ELSE [choice EXCEPT !.success = outcomes]

\* a row as the callback reads it: absent when the callback returns early,
\* else the choice number, the tag and the outcome lines. A row is the
\* sequence of the innerHTML of its td cells.
ReadRow(row) ==
    IF row = <<>> THEN Null
    ELSE LET choiceCell == row[1]
             outcomeCell == row[Len(row)]
             b == BoldText(choiceCell)
         IN IF b = Null THEN Null
            ELSE LET clean == trim(CollapseSpaces(RemoveHr(AfterBold(choiceCell))))
                 IN Some([choiceNumber |-> parseInt(RemoveFirst(b[1], <<"C","h","o","i","c","e"," ">>)),
                          content |-> ParenContent(clean),
                          outcomes |-> Outcomes(outcomeCell)])

\* rows.forEach from row k on; choices is the object, a function of its keys
RECURSIVE EachRow(_, _, _)
EachRow(rows, k, choices) ==
    IF k > Len(rows) THEN choices
    ELSE LET r == ReadRow(rows[k]) IN
         IF k = 1 \/ r = Null THEN EachRow(rows, k + 1, choices)
         ELSE LET n == r[1].choiceNumber
                  old == IF n \in DOMAIN choices THEN choices[n] ELSE NewChoice(n)
                  new == Route(old, r[1].content, r[1].outcomes)
              IN EachRow(rows, k + 1,
                         [m \in DOMAIN choices \cup {n} |->
                             IF m = n THEN new ELSE choices[m]])

\* Object.values: the integer keys ascending, then the key NaN
RECURSIVE ObjectValues(_)
ObjectValues(choices) ==
    IF DOMAIN choices = {} THEN <<>>
    ELSE IF DOMAIN choices = {NaN} THEN <<choices[NaN]>>
    ELSE LET keys == DOMAIN choices \ {NaN}
             n == CHOOSE n \in keys : \A m \in keys : n <= m
         IN <<choices[n]>>
            \o ObjectValues([m \in DOMAIN choices \ {n} |-> choices[m]])

\* parseChoicesTable: absent (a TypeError) when the page has no table; table
\* is the rows of the first table, the header first
parseChoicesTable(table) ==
    IF table = Null THEN Null
    ELSE Some(ObjectValues(EachRow(table[1], 1, <<>>)))

\* first and last cells of the rows of a detail page
Cell_Success == <<"<","b",">","C","h","o","i","c","e"," ","1","<","/","b",">"," ","(","S","u","c","c","e","s","s",")">>
Cell_Fail == <<"<","b",">","C","h","o","i","c","e"," ","1","<","/","b",">"," ","(","F","A","I","L",")">>
Cell_Rare == <<"<","b",">","C","h","o","i","c","e"," ","2","<","/","b",">","<","h","r",">"," "," ","(","R","a","r","e",")">>
Cell_NoTag == <<"<","b",">","C","h","o","i","c","e"," ","1","<","/","b",">">>
Cell_NoBold == <<"C","h","o","i","c","e"," ","1"," ","(","S","u","c","c","e","s","s",")">>
Cell_Ten == <<"<","b",">","C","h","o","i","c","e"," ","1","0","<","/","b",">"," ","(","S","u","c","c","e","s","s",")">>
Cell_Note == <<"<","b",">","N","o","t","e","<","/","b",">"," ","(","S","u","c","c","e","s","s",")">>
Cell_SpeedPower == <<"S","p","e","e","d"," ","+","1","0","<","b","r",">","P","o","w","e","r"," ","+","5">>
Cell_Guts == <<"・","G","u","t","s"," ","+","5","<","b","r",">"," ">>
FirstCells == {Cell_Success, Cell_Fail, Cell_Rare, Cell_NoTag, Cell_NoBold,
               Cell_Ten, Cell_Note}
LastCells == {Cell_SpeedPower, Cell_Guts}
HeaderRow == <<<<"C","h","o","i","c","e">>, <<"E","f","f","e","c","t">>>>
DataRows == {<<>>} \cup {<<f, l>> : f \in FirstCells, l \in LastCells}

\* data rows of a table
MaxRows == 2
Tables ==
    {Null} \cup {Some(<<HeaderRow>> \o rows) : rows \in SeqsUpTo(DataRows, MaxRows)}

ParseChoicesTableCall ==
    /\ pure = NoCall
    /\ \E table \in Tables :
          pure' = [fn |-> "parseChoicesTable", arg |-> table,
                   ret |-> parseChoicesTable(table)]
    /\ UNCHANGED <<pipelineVars, trackerVars>>

ParseEventTypeCall ==
    /\ pure = NoCall
    /\ \E rawText \in TypeTexts :
          pure' = [fn |-> "parseEventType", arg |-> rawText,
                   ret |-> parseEventType(rawText)]
    /\ UNCHANGED <<pipelineVars, trackerVars>>

\* window.ts: getWindowInfo, on windows whose sizes the fractions do not
\* divide, on a window no higher than the padding, and on zone files whose
\* zone reaches the edges of the window
OddGeometries == {[x |-> 3, y |-> 7, width |-> 133, height |-> 257],
                  [x |-> -8, y |-> -8, width |-> 87, height |-> 99]}
EdgeZoneFiles ==
    LET fractions == {0, 10, 30, 70, 90, 100}
    IN {<<[name |-> "edge", left |-> q[1], width |-> q[2],
           top |-> q[3], bottom |-> q[4]]>> :
           q \in {r \in fractions \X fractions \X fractions \X fractions :
                     r[1] + r[2] <= 100 /\ r[3] + r[4] <= 100}}
GetWindowInfoCall ==
    /\ pure = NoCall
    /\ \E zs \in ZoneFiles \cup EdgeZoneFiles :
       \E windows \in WindowLists
                      \cup {<<OsWindow(g, Str_Umamusume, "game")>> :
                               g \in OddGeometries
                                      \cup {[Geometry0 EXCEPT
                                                !.height = PaddingTop
                                                           + PaddingBottom]}} :
          pure' = [fn |-> "getWindowInfo", arg |-> <<zs, windows>>,
                   ret |-> getWindowInfo(zs, findWindow(windows))]
    /\ UNCHANGED <<pipelineVars, trackerVars>>

InitPure == PipelineIdle /\ TrackerIdle /\ PureIdle

NextPure ==
    \/ ParseEventTypeCall
    \/ CompareImageBuffersCall
    \/ CompareImageSimilarityCall
    \/ ParseChoicesTableCall
    \/ GetWindowInfoCall

SpecPure == InitPure /\ [][NextPure]_vars

--------------------------------------------------------------------------
(* Claims about the resolution pipeline. *)

Resolved(c) == calls[c].pc \in {"complete", "fetch"}

\* C1: at most one resolution flow (analyzeEvent or detectUmamusume) is past
\* the isProcessing guard and not yet returned, in every reachable state.
C1_AtMostOneInFlight ==
    Cardinality({c \in 1..MaxCalls : InFlight(c)}) <= 1

\* C2: a request made while a resolution is in flight is a no-op: it returns
\* null and changes neither the flag, the events emitted, the catalog, the
\* configuration, the fetches made nor the flow in flight.
C2_RequestInFlightIsNoOp ==
    [][(nreq' = nreq + 1 /\ \E c \in 1..MaxCalls : InFlight(c))
         => /\ ~lastReturn'.accepted
            /\ lastReturn'.result = Null
            /\ UNCHANGED <<isProcessing, emitted, data, eventsFile, config,
                           configFile, fetched, calls>>]_vars

\* the first candidate whose title is a prefix of the OCR'd title, 0 if none
FirstTitlePrefixOf(d, events, title) ==
    LET hits == SelectSeq(events, LAMBDA p :
                    startsWith(toLowerCase(title), toLowerCase(d[p].title)))
    IN IF hits = <<>> THEN 0 ELSE hits[1]

\* C7: the record selected is the first candidate, in catalog order, whose
\* title is case-insensitively a prefix of the OCR'd title.
C7_SelectsFirstTitlePrefixOfOcr ==
    \A c \in 1..MaxCalls :
        Resolved(c) =>
            calls[c].sel = FirstTitlePrefixOf(data, calls[c].events,
                                              calls[c].titleText[1])

\* C8: a resolution whose selected record has no choices writes the parsed
\* choices into that selected record and into no other record.
C8_WritesIntoSelectedRecord ==
    [][\A c \in 1..MaxCalls :
          (calls[c].pc = "fetch" /\ calls'[c].pc = "complete"
             /\ calls'[c].result # Null)
          => data' = [data EXCEPT ![calls[c].sel].choices = calls'[c].result]]_vars

\* C9: once the choices of a catalog record are non-empty they never change.
C9_NonEmptyChoicesNeverChange ==
    [][\A p \in 1..Len(data) :
          (data[p].choices # Null /\ data[p].choices[1] # <<>>)
          => data'[p].choices = data[p].choices]_vars

EqualsIgnoringCase(a, b) ==
    /\ Len(a) = Len(b)
    /\ \A i \in 1..Len(a) : toLowerCaseChar(a[i]) = toLowerCaseChar(b[i])

\* C10: the candidates are, for a type other than Trainee, exactly the records
\* whose type equals it ignoring case; for Trainee, exactly the records owned
\* by the active character or by "All Umamusume", ignoring case; in catalog
\* order.
C10_CandidateSet ==
    \A c \in 1..MaxCalls :
        Resolved(c) =>
            LET ev == calls[c].events IN
            /\ \A i, j \in 1..Len(ev) : i < j => ev[i] < ev[j]
            /\ \A p \in 1..Len(data) :
                  (\E i \in 1..Len(ev) : ev[i] = p)
                  <=> IF calls[c].type # Str_Trainee
                      THEN EqualsIgnoringCase(data[p].type, calls[c].type)
                      ELSE \/ EqualsIgnoringCase(data[p].uma, calls[c].uma)
                           \/ EqualsIgnoringCase(data[p].uma, Str_AllUmamusume)

\* a Trainee resolution whose candidates are the two records owned by the
\* active character and by "All Umamusume", neither of type Trainee
C10_Witness ==
    \E c \in 1..MaxCalls :
        /\ Resolved(c)
        /\ calls[c].type = Str_Trainee
        /\ calls[c].events = <<1, 2>>

\* the step appends exactly one event, of this name
Appends(name) ==
    /\ Len(emitted') = Len(emitted) + 1
    /\ SubSeq(emitted', 1, Len(emitted)) = emitted
    /\ emitted'[Len(emitted')].name = name

\* C12: a resolution that finds no record for the type and title ends by
\* emitting analysisError and not analysisComplete.
C12_NotFoundEmitsAnalysisError ==
    [][\A c \in 1..MaxCalls :
          (/\ calls[c].kind = "analyze"
           /\ calls[c].pc = "complete"
           /\ calls[c].sel = 0
           /\ calls'[c].pc = "idle")
          => Appends("analysisError")]_vars

\* C13: a resolution whose fetch, parse or catalog write failed ends by
\* emitting analysisError and not analysisComplete.
C13_FetchFailureEmitsAnalysisError ==
    [][\A c \in 1..MaxCalls :
          (/\ calls[c].kind = "analyze"
           /\ calls[c].pc = "complete"
           /\ calls[c].sel # 0
           /\ calls[c].result = Null
           /\ calls'[c].pc = "idle")
          => Appends("analysisError")]_vars

\* C14: a resolution that ends because the OCR of a zone gave no usable text
\* emits an error event: analysisError from analyzeEvent,
\* umamusumeDetectionError from detectUmamusume.
C14_ExtractionFailureEmitsError ==
    [][\A c \in 1..MaxCalls :
          /\ (/\ calls[c].kind = "analyze"
              /\ calls[c].pc = "type"
              /\ calls'[c].pc = "idle")
             => Appends("analysisError")
          /\ (/\ calls[c].kind = "detect"
              /\ calls[c].pc = "ocr"
              /\ calls'[c].depth < calls[c].depth
              /\ ~Truthy(IF calls'[c].pc = "idle" THEN lastReturn'.text
                         ELSE calls'[c].text))
             => Appends("umamusumeDetectionError")]_vars

IsRosterName(t) == \E i \in 1..Len(names) : names[i] = t

\* C15: a frame of detectUmamusume retries exactly when the OCR text is
\* non-empty and no roster name; on a roster name it assigns the name to
\* config.umamusume, writes config and emits umamusumeDetected(name) once (a
\* failed write emits umamusumeDetectionError instead); umamusumeDetected only
\* carries roster names and config.umamusume only holds roster names.
C15_DetectsRosterNamesOnly ==
    [][/\ \A c \in 1..MaxCalls :
             (calls[c].kind = "detect" /\ calls[c].pc = "ocr"
                /\ calls'[c] # calls[c])
             => LET retried == calls'[c].depth > calls[c].depth
                    t == IF calls'[c].pc = "idle" THEN lastReturn'.text
                         ELSE calls'[c].text
                    named == Truthy(t) /\ IsRosterName(t[1])
                IN /\ retried <=> (Truthy(t) /\ ~IsRosterName(t[1]))
                   /\ retried => /\ Appends("umamusumeDetectionStarted")
                                 /\ UNCHANGED <<config, configFile>>
                   /\ named =>
                        /\ config'.umamusume = t[1]
                        /\ \/ /\ configFile' = config'
                              /\ emitted' = Emit("umamusumeDetected", Some(t[1]))
                           \/ /\ configFile' = configFile
                              /\ Appends("umamusumeDetectionError")
                   /\ (~named /\ ~retried) => UNCHANGED <<config, configFile, emitted>>
       /\ IsRosterName(config'.umamusume)
       /\ IsRosterName(configFile'.umamusume)
       /\ \A i \in 1..Len(emitted') :
             emitted'[i].name = "umamusumeDetected"
             => IsRosterName(emitted'[i].arg[1])]_vars

\* a detection that read a text that is no roster name, retried, read "Teio"
\* and stored, wrote and announced it
C15_Witness ==
    /\ lastReturn.kind = "detect"
    /\ lastReturn.result = Some(Str_Teio)
    /\ config.umamusume = Str_Teio
    /\ configFile = config
    /\ emitted = <<[name |-> "umamusumeDetectionStarted", arg |-> Null],
                   [name |-> "umamusumeDetectionStarted", arg |-> Null],
                   [name |-> "umamusumeDetected", arg |-> Some(Str_Teio)]>>

\* how far an accepted analyzeEvent has come
Rank(pc) ==
    CASE pc = "title" -> 1
      [] pc = "type" -> 2
      [] pc = "fetch" -> 3
      [] pc = "complete" -> 4
      [] OTHER -> 5

\* C27: only a text that is no roster name is retried. An accepted
\* analyzeEvent only moves forward (one OCR of the title, one of the type, at
\* most one fetch, the end); a frame of detectUmamusume whose OCR returns
\* calls itself again iff the text is non-empty and no roster name, and
\* otherwise returns with isProcessing cleared; a frame resumed by its nested
\* call only returns; and every invocation in flight ends.
C27_OnlyRosterMismatchRetries ==
    /\ [][/\ \A c \in 1..MaxCalls :
                /\ (calls[c].kind = "analyze" /\ calls'[c] # calls[c])
                      => Rank(calls'[c].pc) > Rank(calls[c].pc)
                /\ (calls[c].kind = "detect" /\ calls[c].pc = "ocr"
                       /\ calls'[c] # calls[c])
                      => LET text == IF calls'[c].pc = "idle"
                                     THEN lastReturn'.text ELSE calls'[c].text
                             mismatch == /\ Truthy(text)
                                         /\ ~IsRosterName(trim(text[1]))
                         IN IF mismatch
                            THEN /\ calls'[c].pc = "ocr"
                                 /\ calls'[c].depth = calls[c].depth + 1
                            ELSE /\ calls'[c].pc \in {"idle", "unwind"}
                                 /\ calls'[c].depth = calls[c].depth - 1
                                 /\ ~isProcessing'
                /\ (calls[c].kind = "detect" /\ calls[c].pc = "unwind"
                       /\ calls'[c] # calls[c])
                      => /\ calls'[c].pc \in {"idle", "unwind"}
                         /\ calls'[c].depth = calls[c].depth - 1
          /\ Len(fetched') <= Len(fetched) + 1
          /\ fetched' # fetched
                => \E c \in 1..MaxCalls :
                      calls[c].pc = "type" /\ calls'[c].pc = "fetch"]_vars
    /\ \A c \in 1..MaxCalls : InFlight(c) ~> Free(c)

\* a detection that was retried once has ended on its second text, the flag
\* cleared
C27_Witness ==
    /\ nreq = 1
    /\ Len(SelectSeq(emitted,
                     LAMBDA e : e.name = "umamusumeDetectionStarted")) = 2
    /\ lastReturn.kind = "detect"
    /\ lastReturn.accepted
    /\ \A c \in 1..MaxCalls : Free(c)
    /\ ~isProcessing

\* C31: every return of an accepted flow leaves isProcessing false; when no
\* flow is in flight isProcessing is false, and a request made then is
\* accepted.
C31_FlagReleasedOnEveryExit ==
    [][/\ \A c \in 1..MaxCalls :
             (InFlight(c) /\ calls'[c].pc = "idle") => ~isProcessing'
       /\ (\A c \in 1..MaxCalls : calls'[c].pc = "idle") => ~isProcessing'
       /\ ((\A c \in 1..MaxCalls : Free(c)) /\ nreq' = nreq + 1)
             => /\ isProcessing'
                /\ \E c \in 1..MaxCalls : calls'[c].pc # "idle"
                /\ lastReturn' = lastReturn]_vars

\* a resolution ended without choices, and the detection requested after it
\* was accepted
C31_Witness ==
    /\ nreq = 2
    /\ lastReturn.kind = "analyze"
    /\ lastReturn.accepted
    /\ lastReturn.result = Null
    /\ emitted = <<[name |-> "analysisStarted", arg |-> Null],
                   [name |-> "umamusumeDetectionStarted", arg |-> Null]>>
    /\ isProcessing
    /\ Cardinality({c \in 1..MaxCalls : InFlight(c)}) = 1

\* C32: a resolution whose fetch or parse of the remote page fails leaves
\* the catalog and events.json as they were, and a resolution that selects a
\* record without choices fetches it, a record whose fetch failed before
\* included.
C32_FailedFetchLeavesCatalog ==
    [][\A c \in 1..MaxCalls :
          /\ (calls[c].pc = "fetch" /\ calls'[c].fetchFailed)
                => /\ data' = data
                   /\ eventsFile' = eventsFile
                   /\ calls'[c].result = Null
          /\ (/\ calls[c].pc = "type"
              /\ calls'[c].pc # "idle"
              /\ calls'[c].sel # 0
              /\ data[calls'[c].sel].choices = Null)
                => /\ calls'[c].pc = "fetch"
                   /\ fetched' = Append(fetched, data[calls'[c].sel].archive_id)]_vars

\* the fetch failed for a record, the catalog is as it was, and the next
\* resolution has requested the same page again
C32_Witness ==
    /\ Len(fetched) = 2
    /\ fetched[1] = fetched[2]
    /\ data = CatalogAligned
    /\ eventsFile = data
    /\ Len(SelectSeq(emitted, LAMBDA e : e.name = "analysisComplete")) = 1
    /\ emitted[2].arg = Null
    /\ \E c \in 1..MaxCalls : calls[c].pc = "fetch"

\* the events of analyzeEvent in a log
AnalysisEvents(log) ==
    SelectSeq(log, LAMBDA e : e.name \in {"analysisStarted", "analysisComplete",
                                          "analysisError"})

\* whether an event ends an analysis
IsTerminal(e) == e.name \in {"analysisComplete", "analysisError"}

\* C33: an accepted analyzeEvent emits analysisStarted first, and afterwards
\* at most one of analysisComplete and analysisError, in the step in which it
\* returns; a rejected analyzeEvent emits nothing; and in the events emitted
\* every analysisComplete or analysisError comes directly after an
\* analysisStarted, no other terminal event between them.
C33_StartedThenOneTerminal ==
    /\ [][/\ \A c \in 1..MaxCalls :
                /\ (Free(c) /\ calls'[c].kind = "analyze")
                      => Appends("analysisStarted")
                /\ (/\ calls[c].kind = "analyze"
                    /\ calls'[c].kind = "analyze"
                    /\ calls'[c] # calls[c])
                      => emitted' = emitted
                /\ (calls[c].kind = "analyze" /\ calls'[c].pc = "idle")
                      => \/ emitted' = emitted
                         \/ Appends("analysisComplete")
                         \/ Appends("analysisError")
          /\ (lastReturn' # lastReturn /\ ~lastReturn'.accepted)
                => emitted' = emitted]_vars
    /\ [](LET log == AnalysisEvents(emitted)
          IN \A i \in 1..Len(log) :
                IsTerminal(log[i]) => (i > 1 /\ log[i - 1].name = "analysisStarted"))

\* the step in which a frame of detectUmamusume reads a roster name
ReadsRosterName ==
    \E c \in 1..MaxCalls :
       /\ calls[c].kind = "detect"
       /\ calls[c].pc = "ocr"
       /\ calls'[c] # calls[c]
       /\ LET t == IF calls'[c].pc = "idle" THEN lastReturn'.text
                   ELSE calls'[c].text
          IN Truthy(t) /\ IsRosterName(t[1])

\* C34: config.umamusume and config.json change, and umamusumeDetected is
\* emitted, only in the step in which a detection reads a roster name: a
\* frame that reads no text (empty, or the capture or the OCR failed), a
\* rejected request and every step of a choice resolution leave them alone.
C34_ConfigChangesOnlyOnRosterName ==
    [][/\ (config' # config \/ configFile' # configFile
             \/ (emitted' # emitted
                   /\ emitted'[Len(emitted')].name = "umamusumeDetected"))
          => ReadsRosterName
       /\ \A c \in 1..MaxCalls :
             /\ (/\ calls[c].kind = "detect"
                 /\ calls[c].pc = "ocr"
                 /\ calls'[c].depth < calls[c].depth
                 /\ ~Truthy(IF calls'[c].pc = "idle" THEN lastReturn'.text
                            ELSE calls'[c].text))
                   => UNCHANGED <<config, configFile, emitted>>
             /\ (calls[c].kind = "analyze" /\ calls'[c] # calls[c])
                   => UNCHANGED <<config, configFile>>
       /\ (nreq' # nreq /\ calls' = calls)
             => UNCHANGED <<config, configFile, emitted>>]_vars

\* after a detection stored "Teio", a later detection read no text and
\* ended: the name is still stored and written
C34_Witness ==
    /\ nreq = 2
    /\ lastReturn.kind = "detect"
    /\ lastReturn.accepted
    /\ lastReturn.result = Null
    /\ ~Truthy(lastReturn.text)
    /\ config.umamusume = Str_Teio
    /\ configFile = config
    /\ emitted[Len(emitted)].name = "umamusumeDetectionStarted"

--------------------------------------------------------------------------
(* Claims about the tracker. *)

Emits(log, name) == \E i \in 1..Len(log) : log[i].name = name
Count(log, name) == Len(SelectSeq(log, LAMBDA e : e.name = name))
IsTick == now' # now

\* C3: career_profile and menu are edge-triggered: an emission never carries
\* the value of the previous emission of the same flag, the first emission of
\* each flag carries true, and no emission carries the value already stored.
C3_EdgeTriggered ==
    [][\A i \in 1..Len(tracked') :
          LET e == tracked'[i] IN
          /\ e.name = "career_profile" =>
                /\ e.arg # lastTracked.career_profile
                /\ lastTracked.career_profile = Null => e.arg = Some(TRUE)
                /\ e.arg[1] # windowState.isCareerProfileActive
          /\ e.name = "menu" =>
                /\ e.arg # lastTracked.menu
                /\ lastTracked.menu = Null => e.arg = Some(TRUE)
                /\ e.arg[1] # windowState.isMenuOpened]_vars

\* career_profile(false) emitted after an earlier career_profile(true): the
\* flag flipped twice, each flip emitted once
C3_Witness ==
    /\ Emits(tracked, "career_profile")
    /\ lastTracked.career_profile = Some(FALSE)
    /\ ~windowState.isCareerProfileActive

\* C4: windowFound is emitted exactly once on a tick that finds the window
\* after a tick that did not (or after construction), and on no other step.
C4_FoundOncePerTransition ==
    [][Count(tracked', "windowFound") =
          IF IsTick /\ prevInfo = Null /\ prevInfo' # Null THEN 1 ELSE 0]_vars

\* windowFound emitted for a window that an earlier tick had found (its
\* sub-check is still suspended) and a later tick had lost
C4_Witness ==
    /\ tracked = <<[name |-> "windowFound", arg |-> Null]>>
    /\ \E k \in checks : k.now < now - TickPeriod

GeometryOf(info) ==
    <<info.window.x, info.window.y, info.window.width, info.window.height,
      info.window.visible>>

\* C5: on a tick that finds the window, windowMoved is emitted iff the
\* previous tick found it too and x, y, width, height or visible differs from
\* that tick's snapshot; never together with windowFound.
C5_MovedIffGeometryDiffers ==
    [][/\ Emits(tracked', "windowMoved")
          <=> /\ IsTick
              /\ prevInfo # Null
              /\ prevInfo' # Null
              /\ GeometryOf(prevInfo'[1]) # GeometryOf(prevInfo[1])
       /\ ~(Emits(tracked', "windowMoved") /\ Emits(tracked', "windowFound"))
       /\ Count(tracked', "windowMoved") <= 1]_vars

\* a tick on which only the title of the window changed: nothing is emitted
C5_Witness ==
    /\ prevInfo # Null
    /\ lastWindowInfo # Null
    /\ prevInfo[1].window.title # lastWindowInfo[1].window.title
    /\ tracked = <<>>

\* C6: a tick that does not find the window while a visible snapshot is
\* stored emits windowHidden and clears the snapshot; windowHidden is emitted
\* exactly once per found-to-not-found transition; windowFound and
\* windowHidden alternate, windowFound first; windowMoved only after a
\* windowFound not yet followed by windowHidden.
C6_HiddenOncePerTransition ==
    [][/\ (IsTick /\ prevInfo' = Null /\ lastWindowInfo # Null
             /\ lastWindowInfo[1].window.visible)
          => (Emits(tracked', "windowHidden") /\ lastWindowInfo' = Null)
       /\ Count(tracked', "windowHidden") =
             IF IsTick /\ prevInfo # Null /\ prevInfo' = Null THEN 1 ELSE 0
       /\ Emits(tracked', "windowFound")
             => lastTracked.window \in {"none", "windowHidden"}
       /\ Emits(tracked', "windowHidden")
             => lastTracked.window \in {"windowFound", "windowMoved"}
       /\ Emits(tracked', "windowMoved")
             => lastTracked.window \in {"windowFound", "windowMoved"}]_vars

\* windowHidden emitted on the third tick or later, the snapshot cleared
C6_Witness ==
    /\ tracked = <<[name |-> "windowHidden", arg |-> Null]>>
    /\ lastWindowInfo = Null
    /\ now >= StartTime + 3 * TickPeriod

\* C16: a sub-check in which a step failed (the capture, the crop, or a
\* comparison that could not load or compare its images) ends with
\* windowState unchanged and with no career_profile or menu emitted.
C16_FailedCheckLeavesState ==
    [][\A k \in checks :
          (k \notin checks' /\ (k.pc # "icon" \/ k.blurFailed))
          => /\ windowState' = windowState
             /\ ~Emits(tracked', "career_profile")
             /\ ~Emits(tracked', "menu")]_vars

\* C22: no two sub-checks start less than CAREER_PROFILE_CHECK_INTERVAL
\* apart: a tick starts none while one that started less than 100 ms before
\* is still awaiting its capture or a comparison.
C22_ChecksStartThrottled ==
    [][IsTick =>
          \A k \in checks' \ checks :
             \A j \in checks : k.now - j.now >= CAREER_PROFILE_CHECK_INTERVAL]_vars

\* C23: a classification that completes with blurMatch and iconMatch stores
\* isCareerProfileActive = (blurMatch or iconMatch), isMenuOpened = blurMatch
\* and lastCareerProfileCheck = the time the sub-check started, flipped or
\* not, in the step that reads the old flags and emits.
C23_CompletedCheckUpdatesState ==
    [][(ended' # Null /\ ended'[1].how = "completed") =>
          LET blurMatch == ended'[1].blurMatch
              iconMatch == ended'[1].iconMatch
              active == blurMatch \/ iconMatch
          IN /\ windowState' = [isCareerProfileActive |-> active,
                                isMenuOpened |-> blurMatch,
                                lastCareerProfileCheck |-> ended'[1].started]
             /\ Emits(tracked', "career_profile")
                   <=> active # windowState.isCareerProfileActive
             /\ Emits(tracked', "menu")
                   <=> blurMatch # windowState.isMenuOpened]_vars

\* a classification completed with the flags it found stored: nothing is
\* emitted, the time of the check is stored
C23_Witness ==
    /\ ended # Null
    /\ ended[1].how = "completed"
    /\ ended[1].blurMatch
    /\ tracked = <<>>
    /\ windowState.isMenuOpened
    /\ windowState.lastCareerProfileCheck = ended[1].started
    /\ lastTracked.menu = Some(TRUE)

\* C25: windowState changes only in the step that ends a completed
\* classification: a tick (window found or not, throttled or not, whatever it
\* emits), a sub-check without a career_profile_icon zone and a sub-check
\* that throws leave the three fields as they were.
C25_StateChangesOnlyOnCompletion ==
    [][/\ windowState' # windowState
            => ended' # Null /\ ended'[1].how = "completed"
       /\ IsTick => windowState' = windowState
       /\ (ended' # Null /\ ended'[1].how = "nozone")
            => windowState' = windowState]_vars

\* the window re-appears after a hide with the flags of the last
\* classification still stored
C25_Witness ==
    /\ Emits(tracked, "windowFound")
    /\ windowState.isCareerProfileActive
    /\ windowState.lastCareerProfileCheck > 0

\* C30: in every reachable state of the tracker isMenuOpened implies
\* isCareerProfileActive, overlapping sub-checks included.
C30_MenuImpliesActive ==
    windowState.isMenuOpened => windowState.isCareerProfileActive

\* a sub-check that started while another was pending completed with the
\* blurred icon matched
C30_Witness ==
    /\ windowState.isMenuOpened
    /\ ended # Null
    /\ ended[1].how = "completed"
    /\ \E k \in checks : k.now < ended[1].started

\* C26: a sub-check that fails does not stop the tick loop: the timer stays
\* armed in every step; once a sub-check has failed, a tick is still possible
\* (as long as the model's bounds on ticks and on suspended sub-checks allow
\* one), a tick still emits windowFound, windowMoved and windowHidden on
\* their transitions, and a classification that completes still emits
\* career_profile and menu on a flip.
C26_TickLoopSurvivesFailure ==
    [][/\ interval' # Null
       /\ (/\ lastTracked.failure
           /\ now < StartTime + MaxTicks * TickPeriod
           /\ Cardinality(checks) < MaxChecks)
             => ENABLED (\E windows \in WindowLists : Tick(windows))
       /\ (lastTracked.failure /\ IsTick) =>
             /\ Emits(tracked', "windowFound")
                   <=> (prevInfo = Null /\ prevInfo' # Null)
             /\ Emits(tracked', "windowHidden")
                   <=> (prevInfo # Null /\ prevInfo' = Null)
             /\ Emits(tracked', "windowMoved")
                   <=> /\ prevInfo # Null
                       /\ prevInfo' # Null
                       /\ GeometryOf(prevInfo'[1]) # GeometryOf(prevInfo[1])
       /\ (lastTracked.failure /\ ended' # Null /\ ended'[1].how = "completed") =>
             /\ Emits(tracked', "career_profile")
                   <=> (ended'[1].blurMatch \/ ended'[1].iconMatch)
                          # windowState.isCareerProfileActive
             /\ Emits(tracked', "menu")
                   <=> ended'[1].blurMatch # windowState.isMenuOpened]_vars

\* after a failed sub-check, a sub-check started by the second tick or a
\* later one completed and emitted career_profile and menu
C26_Witness ==
    /\ lastTracked.failure
    /\ ended # Null
    /\ ended[1].how = "completed"
    /\ ended[1].started > StartTime + TickPeriod
    /\ Emits(tracked, "career_profile")
    /\ Emits(tracked, "menu")
    /\ interval # Null

\* C24: the rectangle a sub-check crops with is the one the geometry of the
\* window gives at the time the image was captured: no rectangle computed
\* before a change of the window's geometry crops an image captured after it.
C24_CropUsesCurrentGeometry ==
    [][(ended' # Null /\ ended'[1].how = "cropped")
          => ended'[1].rect = ended'[1].current]_vars

--------------------------------------------------------------------------
(* Claims about the functions without state. *)

ContainsIgnoringCase(s, w) ==
    \E i \in 1..(Len(s) - Len(w) + 1) :
        \A j \in 1..Len(w) : toLowerCaseChar(s[i + j - 1]) = w[j]

\* C11: parseEventType returns Trainee if the text contains "trainee"
\* ignoring case, else Support if it contains "support", else Scenario.
C11_ParseEventTypePriority ==
    pure.fn = "parseEventType" =>
        /\ pure.ret \in {Str_Trainee, Str_Support, Str_Scenario}
        /\ pure.ret = IF ContainsIgnoringCase(pure.arg, Str_trainee)
                      THEN Str_Trainee
                      ELSE IF ContainsIgnoringCase(pure.arg, Str_support)
                      THEN Str_Support
                      ELSE Str_Scenario

\* a text with "support" before "trainee" is typed Trainee
C11_Witness ==
    /\ pure.fn = "parseEventType"
    /\ pure.arg = <<"S","U","P","P","O","R","T">> \o Str_Trainee
    /\ pure.ret = Str_Trainee

\* C17: an image compared with itself matches under every threshold below 1:
\* the similarity is exactly 1.
C17_SameImageMatches ==
    (/\ pure.fn = "compareImageBuffers"
     /\ pure.arg[1] = pure.arg[2]
     /\ pure.arg[1].decodable
     /\ pure.arg[3] < 100)
    => /\ pure.ret # Null
       /\ pure.ret[1].similarity.num = pure.ret[1].similarity.den
       /\ pure.ret[1].isMatch

\* C18: two images whose rasters differ in length do not match, under any
\* threshold, and nothing is raised; an image that cannot be processed does
\* not match either.
C18_FailsClosed ==
    /\ (/\ pure.fn = "compareImageSimilarity"
        /\ \/ ~pure.arg[1].decodable
           \/ ~pure.arg[2].decodable
           \/ Len(Raw(pure.arg[1])) # Len(Raw(pure.arg[2])))
       => pure.ret = FALSE
    /\ (/\ pure.fn = "compareImageBuffers"
        /\ pure.arg[1].decodable
        /\ pure.arg[2].decodable
        /\ Len(Raw(pure.arg[1])) # Len(Raw(pure.arg[2])))
       => /\ pure.ret # Null
          /\ ~pure.ret[1].isMatch

\* the same raster with and without alpha, compared under threshold 0
C18_Witness ==
    /\ pure.fn = "compareImageSimilarity"
    /\ pure.arg[1].decodable
    /\ pure.arg[2].decodable
    /\ pure.arg[1].channels = 3
    /\ pure.arg[2].channels = 4
    /\ pure.arg[1].pixels = pure.arg[2].pixels
    /\ pure.arg[3] = 0
    /\ pure.ret = FALSE

\* the data rows of a table that the row callback does not skip
ReadRows(rows) == {k \in 2..Len(rows) : ReadRow(rows[k]) # Null}
RowNumber(rows, k) == ReadRow(rows[k])[1].choiceNumber
RowTag(rows, k) == ReadRow(rows[k])[1].content
RowLines(rows, k) == ReadRow(rows[k])[1].outcomes
\* the bucket the claim routes a tag to
BucketOf(tag) ==
    IF EqualsIgnoringCase(tag, Str_success) THEN "success"
    ELSE IF EqualsIgnoringCase(tag, Str_fail) THEN "failure"
    ELSE "success"
IsLabel(tag) == tag # <<>> /\ BucketOf(tag) = "success"
                /\ ~EqualsIgnoringCase(tag, Str_success)
Bucket(choice, name) == IF name = "failure" THEN choice.failure ELSE choice.success
IsSuffix(t, u) == Len(t) <= Len(u) /\ SubSeq(u, Len(u) - Len(t) + 1, Len(u)) = t
\* the rows of number n routed to the bucket, in row order
RECURSIVE RoutedFrom(_, _, _, _)
RoutedFrom(rows, k, n, name) ==
    IF k > Len(rows) THEN <<>>
    ELSE IF k \in ReadRows(rows) /\ RowNumber(rows, k) = n
            /\ BucketOf(RowTag(rows, k)) = name
    THEN <<k>> \o RoutedFrom(rows, k + 1, n, name)
    ELSE RoutedFrom(rows, k + 1, n, name)

ExampleTable == Some(<<HeaderRow, <<Cell_Success, Cell_SpeedPower>>>>)
ExampleChoices ==
    <<[choice |-> 1, text |-> <<>>,
       success |-> <<<<"S","p","e","e","d"," ","+","1","0">>, <<"P","o","w","e","r"," ","+","5">>>>,
       failure |-> <<>>]>>

\* C19: the outcome lines of a data row go to the bucket of its tag: success
\* for the tag "success" in any case, for another tag (which becomes the
\* label) and for no tag, failure for the tag "fail"; the table of the
\* example parses to the choice of the example.
C19_RoutesByTag ==
    (pure.fn = "parseChoicesTable" /\ pure.arg # Null) =>
        LET rows == pure.arg[1]
            ret == pure.ret[1]
        IN /\ pure.ret # Null
           /\ \A k \in ReadRows(rows) :
                 \E i \in 1..Len(ret) :
                    /\ ret[i].choice = RowNumber(rows, k)
                    /\ LET name == BucketOf(RowTag(rows, k))
                           routed == RoutedFrom(rows, 2, RowNumber(rows, k), name)
                       IN routed[Len(routed)] = k
                          => IsSuffix(RowLines(rows, k), Bucket(ret[i], name))
                    /\ (/\ IsLabel(RowTag(rows, k))
                        /\ ~\E j \in ReadRows(rows) :
                               /\ j > k
                               /\ RowNumber(rows, j) = RowNumber(rows, k)
                               /\ IsLabel(RowTag(rows, j)))
                       => ret[i].text = RowTag(rows, k)
           /\ \A i \in 1..Len(ret) :
                 /\ \A name \in {"success", "failure"} :
                       \A l \in 1..Len(Bucket(ret[i], name)) :
                          \E k \in ReadRows(rows) :
                             /\ RowNumber(rows, k) = ret[i].choice
                             /\ BucketOf(RowTag(rows, k)) = name
                             /\ \E m \in 1..Len(RowLines(rows, k)) :
                                   RowLines(rows, k)[m] = Bucket(ret[i], name)[l]
                 /\ (~\E k \in ReadRows(rows) :
                        /\ RowNumber(rows, k) = ret[i].choice
                        /\ IsLabel(RowTag(rows, k)))
                    => ret[i].text = <<>>
           /\ pure.arg = ExampleTable => ret = ExampleChoices

\* a table with a row tagged (FAIL) and a row tagged (Rare): the first in
\* failure, the second in success with the label Rare
C19_Witness ==
    /\ pure.fn = "parseChoicesTable"
    /\ pure.arg = Some(<<HeaderRow, <<Cell_Fail, Cell_SpeedPower>>,
                         <<Cell_Rare, Cell_Guts>>>>)
    /\ pure.ret = Some(<<[choice |-> 1, text |-> <<>>, success |-> <<>>,
                          failure |-> <<<<"S","p","e","e","d"," ","+","1","0">>, <<"P","o","w","e","r"," ","+","5">>>>],
                         [choice |-> 2, text |-> <<"R","a","r","e">>,
                          success |-> <<<<"G","u","t","s"," ","+","5">>>>, failure |-> <<>>]>>)

\* C20: the result has one choice per choice number of the rows read, in
\* ascending order of number, and each bucket of a choice is the
\* concatenation, in row order, of the lines of every row routed to it.
C20_AccumulatesAcrossRows ==
    (pure.fn = "parseChoicesTable" /\ pure.arg # Null) =>
        LET rows == pure.arg[1]
            ret == pure.ret[1]
        IN /\ pure.ret # Null
           /\ \A i, j \in 1..Len(ret) : i < j => ret[i].choice < ret[j].choice
           /\ {ret[i].choice : i \in 1..Len(ret)}
                 = {RowNumber(rows, k) : k \in ReadRows(rows)}
           /\ \A i \in 1..Len(ret) : \A name \in {"success", "failure"} :
                 LET routed == RoutedFrom(rows, 2, ret[i].choice, name)
                 IN Bucket(ret[i], name)
                       = Concat([m \in 1..Len(routed) |-> RowLines(rows, routed[m])])

\* a row the claim keeps: it has cells, a bold element, and the bold label is
\* "Choice " followed by digits
HasChoiceLabel(row) ==
    /\ row # <<>>
    /\ BoldText(row[1]) # Null
    /\ LET label == BoldText(row[1])[1]
           prefix == <<"C","h","o","i","c","e"," ">>
       IN /\ startsWith(label, prefix)
          /\ Len(label) > Len(prefix)
          /\ \A i \in (Len(prefix) + 1)..Len(label) : IsDigit(label[i])

\* C21: the header row and every row without cells, without a bold element
\* or whose bold label is not "Choice <n>" is skipped without aborting the
\* parse: the result holds exactly the choices of the other rows, each with
\* an integer number.
C21_SkipsMalformedRows ==
    (pure.fn = "parseChoicesTable" /\ pure.arg # Null) =>
        LET rows == pure.arg[1]
            ret == pure.ret[1]
        IN /\ pure.ret # Null
           /\ \A i \in 1..Len(ret) : ret[i].choice \in Nat
           /\ {ret[i].choice : i \in 1..Len(ret)}
                 = {parseInt(RemoveFirst(BoldText(rows[k][1])[1], <<"C","h","o","i","c","e"," ">>)) :
                       k \in {j \in 2..Len(rows) : HasChoiceLabel(rows[j])}}

\* the sum of the absolute differences of the three channels of two colours
ChannelSum(c1, c2) ==
    Abs(c1[1] - c2[1]) + Abs(c1[2] - c2[2]) + Abs(c1[3] - c2[3])

\* the pixels of two rasters that are within 30 of each other
MatchingPixels(image1, image2) ==
    {p \in 1..Pixels : ChannelSum(image1.pixels[p], image2.pixels[p]) <= 30}

\* C28: on two RGB rasters of equal length a pixel matches iff the sum of
\* the absolute differences of its channels is at most 30, the similarity is
\* the matching pixels over all pixels (between 0 and 1), and isMatch is
\* similarity > threshold: a similarity equal to the threshold is no match.
C28_SimilarityIsMatchingFraction ==
    (/\ pure.fn = "compareImageBuffers"
     /\ pure.arg[1].decodable /\ pure.arg[1].channels = 3
     /\ pure.arg[2].decodable /\ pure.arg[2].channels = 3)
    => LET matching == Cardinality(MatchingPixels(pure.arg[1], pure.arg[2]))
           threshold == pure.arg[3]
           result == pure.ret[1]
       IN /\ pure.ret # Null
          /\ result.similarity.den > 0
          /\ result.similarity.num * Pixels = matching * result.similarity.den
          /\ 0 <= result.similarity.num
          /\ result.similarity.num <= result.similarity.den
          /\ result.isMatch <=> matching * 100 > threshold * Pixels
          /\ matching * 100 = threshold * Pixels => ~result.isMatch

\* two rasters whose pixels all differ by exactly 30, compared at the
\* threshold 1: every pixel matches and the result is no match
C28_Witness ==
    /\ pure.fn = "compareImageBuffers"
    /\ pure.arg[1].decodable /\ pure.arg[1].channels = 3
    /\ pure.arg[2].decodable /\ pure.arg[2].channels = 3
    /\ \A p \in 1..Pixels :
          ChannelSum(pure.arg[1].pixels[p], pure.arg[2].pixels[p]) = 30
    /\ pure.arg[3] = 100
    /\ pure.ret # Null
    /\ pure.ret[1].similarity.num = pure.ret[1].similarity.den
    /\ ~pure.ret[1].isMatch

C35_RectangleInsidePaddedWindow ==
    (pure.fn = "getWindowInfo" /\ pure.ret # Null) =>
        LET zs == pure.arg[1]
            w == pure.ret[1].window
        IN \A i \in 1..Len(zs) :
              LET r == pure.ret[1].captures[i] IN
              (/\ 0 <= zs[i].left /\ 0 <= zs[i].width
               /\ zs[i].left + zs[i].width <= 100
               /\ 0 <= zs[i].top /\ 0 <= zs[i].bottom
               /\ zs[i].top + zs[i].bottom <= 100
               /\ w.height >= PaddingTop + PaddingBottom)
                  => /\ 0 <= r.x
                     /\ r.x + r.width <= w.width
                     /\ PaddingTop <= r.y
                     /\ r.y + r.height <= w.height - PaddingBottom
                     /\ r.width >= 0
                     /\ r.height >= 0

====
